---- MODULE Spec2Model ----
(***************************************************************************)
(* Model of the GameEngine simulation core: the structure-of-arrays drone  *)
(* store, the squad command registry, the missile/Wall damage resolver and *)
(* the per-frame drone state machine (animate -> updateMissiles ->         *)
(* updateDrones -> housekeeping), with the external commands that are      *)
(* applied between frames.                                                 *)
(*                                                                         *)
(* Abstractions.                                                           *)
(*  - Geometry.  dronePos is replaced by droneDist[i]: the number of       *)
(*    updates drone i still has to travel before it is inside the          *)
(*    threshold of its current target (waypoint, formation slot, asteroid, *)
(*    mothership).  A drone assigned to a new squad can be anywhere, so    *)
(*    its distance to its first target is drawn from 0..MaxDist (the       *)
(*    oracle geo); every other new target is MaxDist away.                 *)
(*    Missile flight is abstracted to the fate of each missile in a frame. *)
(*    An enemy is its hp and its shield; which enemies fire in a frame     *)
(*    (fireTimer, Math.random) is an input of the frame's end, and the     *)
(*    position of a Swarm drone relative to the enemies and its critical   *)
(*    draw are inputs of its update (the oracle contact).  A wave is a     *)
(*    list of ships of the difficulty's composition; the wave cooldown     *)
(*    (30 s) is WaveCooldown frames.  The frame's recharge runs at the     *)
(*    initial shieldRegen and hullRegen; the levels the shop sells are     *)
(*    kept in state and read by the costs only.                            *)
(*  - Time.  Every frame runs at the clamped dt = 0.1 with stride 1, so    *)
(*    one mining update adds dt * 10 * miningSpeed = miningSpeed cargo.    *)
(*  - Health is counted in tenths of a hit point.                          *)
(*  - A frame is one uninterruptible run of animate(); it is unrolled into *)
(*    its loop iterations with pc, and external commands are enabled only  *)
(*    at pc = "idle" (between frames).                                     *)
(*  - Sessions are not tutorials.  A paused frame only renders.            *)
(*  - Scheduling.  The per-frame budgets of updateDrones (50,000 and       *)
(*    10,000 drones) are FG_BUDGET and BG_BUDGET; the plan of a frame is   *)
(*    the set of indices each loop visits.                                 *)
(*  - Numbers.  Stats counted in tenths (speeds, regeneration, damage      *)
(*    multiplier) or hundredths (critChance) are integers, and costs and   *)
(*    path interpolation use exact rational arithmetic: the rounding noise *)
(*    of floating point is not modelled.  interpolatePath works on paths   *)
(*    along the grid axes, where distances are integers.                   *)
(*  - Pure functions (the update plan, the stride race, interpolatePath,   *)
(*    the two phases of the Wall test, one update of a Returning drone)    *)
(*    are applied to args and leave their value in result.  The Wall test  *)
(*    works on paths along the x axis, with integer coordinates; the       *)
(*    Returning drone flies on a line through the mothership.              *)
(*  - What the engine writes and never reads back (the snapshot handed to  *)
(*    the panel, the slots a purchase initialised) is left in result by    *)
(*    the specifications that look at it, and nowhere else.                *)
(*  - The resource pool of the model is full at MaxResources: income is    *)
(*    lost to a full pool, and a purse richer than that keeps what it has. *)
(***************************************************************************)
EXTENDS Integers, Sequences, FiniteSets, TLC

(* ------------------------------ bounds -------------------------------- *)
MAX_DRONES == 4       \* capacity of the store (5,000,000 in the program)
MaxStart == 2         \* drones of the loaded session
MaxCmdId == 2         \* command ids handed out before the registry empties
MaxDist == 1          \* largest abstract distance to a new target
MaxMissiles == 2      \* missiles in flight
MaxPathLen == 2       \* points of a drawn path
MaxLoad == 2          \* cargo carried by one drone
MaxResources == 2     \* resource pool
MaxTime == 3          \* game time, in frames of the clamped dt
MaxEnemies == 2       \* enemy ships in the field
MaxEnemyDist == 2     \* largest abstract distance of a drone to an enemy
WaveCooldown == 2     \* frames between two waves (30 s in the program)
MaxWaveTime == 6      \* game time of a session with waves, in frames
FG_BUDGET == 2        \* foreground updates of one frame (50,000 in the program)
BG_BUDGET == 1        \* background updates of one frame (10,000 in the program)
OPTIMIZED_RENDER_CAP == 1  \* drones drawn with the optimisation on (40,000)
MaxFrame == 11        \* frames the renderer has counted
MaxLeg == 4           \* length of one leg of a path, in moves of one frame
MaxStride == 3        \* stride of the throttled drone
MaxUpdates == 3       \* updates of the throttled drone
MaxPoints == 3        \* points of a path that is resampled
MaxCoord == 2         \* largest coordinate of a path point
MaxCount == 4         \* points asked of interpolatePath (1000 in the program)
SoftFloor == 2        \* smallest custom drone limit (100 in the program)
MaxCredits == 5000    \* richest purse a shopping session starts with
MaxSpan == 4          \* length of a Wall path, in hundreds
Reach == 12           \* how far past the ends of a Wall a missile is placed
MaxMove == 24         \* droneSpeed * 20 * dt * stride of one update
MaxHome == 40         \* distance of a loaded drone from the mothership

(* -------------------------- program constants ------------------------- *)
STATE_MINING_SEEK == 0
STATE_RETURNING == 2
STATE_ATTACKING == 3
SPREAD_COUNT == 1000
cargoCapacity == 1
miningSpeed == 1
MeleeRange == 1       \* distanceToSquared(enemy.position) < 2500

Slots == 0..(MAX_DRONES - 1)
Modes == {"SWARM", "WALL"}
RatioSet == {50, 99}
BuyOffers == {<<1, 2>>, <<10, 20>>}

Min(a, b) == IF a < b THEN a ELSE b
Max(a, b) == IF a > b THEN a ELSE b
Tenths(x) == 10 * x

VARIABLES
    droneCount,        \* state.droneCount
    droneState,        \* Int8Array
    droneTargetId,     \* Int32Array
    droneCommandId,    \* Int32Array
    droneLoad,         \* Float32Array
    droneHP,           \* Float32Array, in tenths
    droneDist,         \* abstraction of dronePos
    commands,          \* the registry, in array order
    nextCommandId,
    activeSquads,      \* state.activeSquads
    wallHP,            \* state.wallHP
    resources,         \* state.resources
    enemiesDefeated,   \* state.enemiesDefeated
    customMaxDronesEnabled,
    softMaxDrones,
    enemies,           \* userData.hp and userData.shield of the enemies, in tenths
    damageMultiplier,  \* state.damageMultiplier, in tenths
    shieldMax,         \* state.shieldMax, in tenths
    shieldCurrent,     \* state.shieldCurrent, in tenths
    hullIntegrity,     \* state.hullIntegrity, in tenths
    isGameOver,
    gameOverCalls,     \* the number of times config.onGameOver was called
    missiles,          \* damages of the missiles in flight, in tenths
    gameTime,          \* gameTime, in frames
    message,           \* the notice emitted by the last step ("" if none)
    pc,                \* position inside animate()
    hitQueue,          \* damageCandidates, flattened in application order
    deadIndices,       \* updateMissiles' deadIndices, kept to the frame's end
    dIdx,              \* loop index of updateDrones
    dCount,            \* updateDrones' dCount
    cmdMap,            \* updateDrones' cmdMap (the command objects)
    paused,            \* the pause flag
    lastEnemySpawn,    \* game time of the last wave, in frames
    state,             \* this.state: the upgrade levels no other variable holds
    args,              \* the arguments of a function that is applied on its own
    result             \* what that function returned

droneVars == <<droneCount, droneState, droneTargetId, droneCommandId,
               droneLoad, droneHP, droneDist>>
callVars == <<args, result>>
settingVars == <<wallHP, customMaxDronesEnabled, softMaxDrones,
                 damageMultiplier, shieldMax, paused, state, callVars>>
shipVars == <<enemies, enemiesDefeated, shieldCurrent, hullIntegrity,
              isGameOver, gameOverCalls, lastEnemySpawn>>
frameVars == <<pc, hitQueue, deadIndices, dIdx, dCount, cmdMap>>
vars == <<droneVars, commands, nextCommandId, activeSquads, resources,
          settingVars, shipVars, missiles, gameTime, message, frameVars>>

\* The position of a drone relative to the enemies and the critical-hit draw
\* of one update: its distance to each enemy, whether it approaches enemies[0]
\* from the front (dot > -0.2), whether Math.random() < critChance.
Contacts(es) ==
    [dist : [1..Len(es) -> 0..MaxEnemyDist], front : BOOLEAN, crit : BOOLEAN]

\* every enemy is out of melee range
Far(es) ==
    [dist |-> [j \in 1..Len(es) |-> MaxEnemyDist], front |-> TRUE, crit |-> FALSE]

(* The mutable engine state the handlers work on, as one record. *)
Cur ==
    [droneCount |-> droneCount, droneState |-> droneState,
     droneTargetId |-> droneTargetId, droneCommandId |-> droneCommandId,
     droneLoad |-> droneLoad, droneHP |-> droneHP, droneDist |-> droneDist,
     commands |-> commands, nextCommandId |-> nextCommandId,
     activeSquads |-> activeSquads, resources |-> resources,
     cmdMap |-> cmdMap, message |-> "",
     enemies |-> enemies, enemiesDefeated |-> enemiesDefeated,
     shieldCurrent |-> shieldCurrent, hullIntegrity |-> hullIntegrity,
     isGameOver |-> isGameOver, gameOverCalls |-> gameOverCalls,
     damageMultiplier |-> damageMultiplier, shieldMax |-> shieldMax,
     lastEnemySpawn |-> lastEnemySpawn,
     contact |-> Far(enemies)]

Commit(E) ==
    /\ droneCount' = E.droneCount
    /\ droneState' = E.droneState
    /\ droneTargetId' = E.droneTargetId
    /\ droneCommandId' = E.droneCommandId
    /\ droneLoad' = E.droneLoad
    /\ droneHP' = E.droneHP
    /\ droneDist' = E.droneDist
    /\ commands' = E.commands
    /\ nextCommandId' = E.nextCommandId
    /\ activeSquads' = E.activeSquads
    /\ resources' = E.resources
    /\ cmdMap' = E.cmdMap
    /\ message' = E.message
    /\ enemies' = E.enemies
    /\ enemiesDefeated' = E.enemiesDefeated
    /\ shieldCurrent' = E.shieldCurrent
    /\ hullIntegrity' = E.hullIntegrity
    /\ isGameOver' = E.isGameOver
    /\ gameOverCalls' = E.gameOverCalls
    /\ lastEnemySpawn' = E.lastEnemySpawn

(* ------------------------------ helpers ------------------------------- *)
\* The indices 0..n-1 in ascending order (the order a for loop visits them).
IdxSeq(n) == [k \in 1..n |-> k - 1]

Take(s, n) == SubSeq(s, 1, Min(n, Len(s)))

HasCommand(cmds, id) == \E k \in 1..Len(cmds) : cmds[k].id = id

FindCommand(cmds, id) == cmds[CHOOSE k \in 1..Len(cmds) : cmds[k].id = id]

CommandIds(cmds) == {cmds[k].id : k \in 1..Len(cmds)}

\* cmd.activeDroneCount = v on the command object with this id.
SetCount(cmds, id, v) ==
    [k \in 1..Len(cmds) |->
        IF cmds[k].id = id
        THEN [cmds[k] EXCEPT !.activeDroneCount = v]
        ELSE cmds[k]]

(* ------------------------------ initDrone ----------------------------- *)
\* Fault variant: only the state of the slot is set.
initDroneStateOnly(E, i) == [E EXCEPT !.droneState[i] = STATE_MINING_SEEK]

initDrone(E, i) ==
    [E EXCEPT !.droneState[i] = STATE_MINING_SEEK,
              !.droneTargetId[i] = -1,
              !.droneCommandId[i] = -1,
              !.droneLoad[i] = 0,
              !.droneHP[i] = Tenths(1),
              !.droneDist[i] = MaxDist]

RECURSIVE initDrones(_, _, _)
initDrones(E, s, e) ==
    IF s >= e THEN E ELSE initDrones(initDrone(E, s), s + 1, e)

(* ------------------------------ removeSquad --------------------------- *)
\* Fault variant: the members keep their commandId.
removeSquadKeepsIds(E, id, reason) ==
    IF ~HasCommand(E.commands, id) THEN E
    ELSE
      LET rest == SelectSeq(E.commands, LAMBDA c : c.id # id)
          member(i) == i < E.droneCount /\ E.droneCommandId[i] = id
      IN [E EXCEPT
            !.commands = rest,
            !.activeSquads = Len(rest),
            !.droneState =
                [i \in Slots |-> IF member(i) THEN STATE_MINING_SEEK ELSE @[i]],
            !.droneTargetId = [i \in Slots |-> IF member(i) THEN -1 ELSE @[i]],
            !.droneDist = [i \in Slots |-> IF member(i) THEN MaxDist ELSE @[i]],
            !.nextCommandId = IF Len(rest) = 0 THEN 0 ELSE @,
            !.message = IF reason # "" THEN reason ELSE @]

\* Fault variant: every Attacking drone is reset, not only the members.
removeSquadAllAttacking(E, id, reason) ==
    IF ~HasCommand(E.commands, id) THEN E
    ELSE
      LET rest == SelectSeq(E.commands, LAMBDA c : c.id # id)
          member(i) == i < E.droneCount /\ E.droneState[i] = STATE_ATTACKING
      IN [E EXCEPT
            !.commands = rest,
            !.activeSquads = Len(rest),
            !.droneState =
                [i \in Slots |-> IF member(i) THEN STATE_MINING_SEEK ELSE @[i]],
            !.droneCommandId = [i \in Slots |-> IF member(i) THEN -1 ELSE @[i]],
            !.droneTargetId = [i \in Slots |-> IF member(i) THEN -1 ELSE @[i]],
            !.droneDist = [i \in Slots |-> IF member(i) THEN MaxDist ELSE @[i]],
            !.nextCommandId = IF Len(rest) = 0 THEN 0 ELSE @,
            !.message = IF reason # "" THEN reason ELSE @]

\* Fault variant: the id counter is reset on every removal.
removeSquadAlwaysResets(E, id, reason) ==
    IF ~HasCommand(E.commands, id) THEN E
    ELSE
      LET rest == SelectSeq(E.commands, LAMBDA c : c.id # id)
          member(i) == i < E.droneCount /\ E.droneCommandId[i] = id
      IN [E EXCEPT
            !.commands = rest,
            !.activeSquads = Len(rest),
            !.droneState =
                [i \in Slots |-> IF member(i) THEN STATE_MINING_SEEK ELSE @[i]],
            !.droneCommandId = [i \in Slots |-> IF member(i) THEN -1 ELSE @[i]],
            !.droneTargetId = [i \in Slots |-> IF member(i) THEN -1 ELSE @[i]],
            !.droneDist = [i \in Slots |-> IF member(i) THEN MaxDist ELSE @[i]],
            !.nextCommandId = 0,
            !.message = IF reason # "" THEN reason ELSE @]

removeSquad(E, id, reason) ==
    IF ~HasCommand(E.commands, id) THEN E
    ELSE
      LET rest == SelectSeq(E.commands, LAMBDA c : c.id # id)
          member(i) == i < E.droneCount /\ E.droneCommandId[i] = id
      IN [E EXCEPT
            !.commands = rest,
            !.activeSquads = Len(rest),
            !.droneState =
                [i \in Slots |-> IF member(i) THEN STATE_MINING_SEEK ELSE @[i]],
            !.droneCommandId = [i \in Slots |-> IF member(i) THEN -1 ELSE @[i]],
            !.droneTargetId = [i \in Slots |-> IF member(i) THEN -1 ELSE @[i]],
            !.droneDist = [i \in Slots |-> IF member(i) THEN MaxDist ELSE @[i]],
            !.nextCommandId = IF Len(rest) = 0 THEN 0 ELSE @,
            !.message = IF reason # "" THEN reason ELSE @]

(* ------------------------- createSquadFromPending --------------------- *)
\* The length of interpolatePath(path, count): a drawn path has points more
\* than 5 apart, so its total length exceeds 0.1 and it is resampled.
SpreadLen(pathLen, count) == IF pathLen < 2 THEN pathLen ELSE count

IdlePool(E) ==
    SelectSeq(IdxSeq(E.droneCount),
              LAMBDA i : E.droneState[i] \in {STATE_MINING_SEEK, STATE_RETURNING})

\* Fault variant: without the floor of one drone.
DeployNeededNoMinimum(count, ratio) == (count * ratio) \div 100

\* Math.max(1, Math.floor(droneCount * deploymentRatio)), ratio in percent
DeployNeeded(count, ratio) == Max(1, (count * ratio) \div 100)

\* The re-tasking loop: Attacking drones in index order, until `needed` are found.
RetaskPool(E, needed) ==
    Take(SelectSeq(IdxSeq(E.droneCount),
                   LAMBDA i : E.droneState[i] = STATE_ATTACKING),
         needed)

\* Fault variant: re-tasking whatever the attack mode.
EligiblePoolAnyMode(E, mode, needed) ==
    IF Len(IdlePool(E)) = 0
    THEN RetaskPool(E, needed)
    ELSE IdlePool(E)

EligiblePool(E, mode, needed) ==
    IF Len(IdlePool(E)) = 0 /\ mode = "WALL"
    THEN RetaskPool(E, needed)
    ELSE IdlePool(E)

\* Fault variant: the spread is divided by the number of drones, not by the
\* number of gaps between them.
WallTargetIdxByCount(assignedIndex, totalAssigned, spreadLen) ==
    IF totalAssigned > 1
    THEN (assignedIndex * (spreadLen - 1)) \div totalAssigned
    ELSE 0

\* Fault variant: the spread runs over spreadLen instead of spreadLen - 1.
WallTargetIdxOffByOne(assignedIndex, totalAssigned, spreadLen) ==
    IF totalAssigned > 1
    THEN (assignedIndex * spreadLen) \div (totalAssigned - 1)
    ELSE 0

\* The formation slot of the drone that is assignedIndex-th of totalAssigned:
\* Math.floor(assignedIndex / (totalAssigned - 1) * (spreadPoints.length - 1)).
\* The source evaluates the quotient and the product in double precision; for
\* totalAssigned <= MAX_DRONES + 1 and 1000 spread points the result equals the
\* exact floor computed here.
WallTargetIdx(assignedIndex, totalAssigned, spreadLen) ==
    IF totalAssigned > 1
    THEN (assignedIndex * (spreadLen - 1)) \div (totalAssigned - 1)
    ELSE 0

AssignDrones(E, id, type, hp, dronesToAssign, spreadLen, geo) ==
    LET total == Len(dronesToAssign)
        pos(i) == CHOOSE k \in 1..total : dronesToAssign[k] = i
        picked(i) == \E k \in 1..total : dronesToAssign[k] = i
    IN [E EXCEPT
          !.droneState =
              [i \in Slots |-> IF picked(i) THEN STATE_ATTACKING ELSE @[i]],
          !.droneCommandId = [i \in Slots |-> IF picked(i) THEN id ELSE @[i]],
          !.droneHP =
              [i \in Slots |->
                  IF picked(i)
                  THEN (IF type = "WALL" THEN Tenths(hp) ELSE Tenths(1))
                  ELSE @[i]],
          !.droneTargetId =
              [i \in Slots |->
                  IF picked(i)
                  THEN (IF type = "WALL"
                        THEN WallTargetIdx(pos(i) - 1, total, spreadLen)
                        ELSE 0)
                  ELSE @[i]],
          !.droneDist = [i \in Slots |-> IF picked(i) THEN geo[i] ELSE @[i]]]

createSquadFromPending(E, pathLen, mode, ratio, hp, geo) ==
    IF pathLen < 2 THEN E
    ELSE
      LET needed == DeployNeeded(E.droneCount, ratio)
          avail == EligiblePool(E, mode, needed)
      IN IF Len(avail) = 0
         THEN [E EXCEPT !.message = "NO IDLE DRONES"]
         ELSE
           LET id == E.nextCommandId + 1
               spreadLen == SpreadLen(pathLen, SPREAD_COUNT)
               dronesToAssign == Take(avail, needed)
               cmd == [id |-> id, type |-> mode, pathLen |-> pathLen,
                       spreadLen |-> spreadLen,
                       activeDroneCount |-> Len(dronesToAssign)]
               E1 == [E EXCEPT !.nextCommandId = id,
                               !.commands = Append(@, cmd),
                               !.activeSquads = @ + 1,
                               !.message = "SQUAD DEPLOYED"]
           IN AssignDrones(E1, id, mode, hp, dronesToAssign, spreadLen, geo)

(* ------------------------------ removeDrone --------------------------- *)
\* Fault variant: the health of the moved drone is not copied.
removeDroneDropsHP(E, i) ==
    LET last == E.droneCount - 1
        moved == IF i # last
                 THEN [E EXCEPT !.droneState[i] = E.droneState[last],
                                !.droneTargetId[i] = E.droneTargetId[last],
                                !.droneCommandId[i] = E.droneCommandId[last],
                                !.droneLoad[i] = E.droneLoad[last],
                                !.droneDist[i] = E.droneDist[last]]
                 ELSE E
    IN [moved EXCEPT !.droneCount = last]

\* Fault variant: the count moves the wrong way.
removeDroneGrows(E, i) ==
    LET last == E.droneCount - 1
        moved == IF i # last
                 THEN [E EXCEPT !.droneState[i] = E.droneState[last],
                                !.droneTargetId[i] = E.droneTargetId[last],
                                !.droneCommandId[i] = E.droneCommandId[last],
                                !.droneLoad[i] = E.droneLoad[last],
                                !.droneHP[i] = E.droneHP[last],
                                !.droneDist[i] = E.droneDist[last]]
                 ELSE E
    IN [moved EXCEPT !.droneCount = Min(MAX_DRONES, E.droneCount + 1)]

\* Fault variant: the count is decremented without moving the last drone into
\* the freed slot.
removeDroneNoSwap(E, i) == [E EXCEPT !.droneCount = @ - 1]

removeDrone(E, i) ==
    LET last == E.droneCount - 1
        moved == IF i # last
                 THEN [E EXCEPT !.droneState[i] = E.droneState[last],
                                !.droneTargetId[i] = E.droneTargetId[last],
                                !.droneCommandId[i] = E.droneCommandId[last],
                                !.droneLoad[i] = E.droneLoad[last],
                                !.droneHP[i] = E.droneHP[last],
                                !.droneDist[i] = E.droneDist[last]]
                 ELSE E
    IN [moved EXCEPT !.droneCount = last]

(* ------------------------------ buyDrones ----------------------------- *)
\* Math.ceil((cost / amt) * actualAmount)
PartialCost(amt, cost, actualAmount) ==
    (cost * actualAmount + amt - 1) \div amt

\* Fault variant: the custom limit is not read.
purchaseLimitHard(custom, soft) == MAX_DRONES

purchaseLimit(custom, soft) ==
    IF custom THEN Min(MAX_DRONES, soft) ELSE MAX_DRONES

buyDrones(E, amt, cost, custom, soft) ==
    IF E.resources < 1 THEN E
    ELSE
      LET limit == purchaseLimit(custom, soft)
          availableSpace == limit - E.droneCount
      IN IF availableSpace <= 0
         THEN [E EXCEPT !.message = IF custom THEN "CUSTOM LIMIT REACHED"
                                    ELSE "SYSTEM CAPACITY REACHED"]
         ELSE
           LET actualAmount == Min(amt, availableSpace)
               actualCost == IF amt > availableSpace
                             THEN PartialCost(amt, cost, actualAmount)
                             ELSE cost
           IN IF E.resources >= actualCost
              THEN LET s == E.droneCount
                       e == s + actualAmount
                       E1 == initDrones(E, s, e)
                   IN [E1 EXCEPT !.resources = @ - actualCost,
                                 !.droneCount = e,
                                 !.message = IF actualAmount < amt
                                             THEN "PARTIAL FILL" ELSE @]
              ELSE E

(* ------------------------------ updateMissiles ------------------------ *)
\* enemy missile damage (animate): 0.5 for the first enemy, then 1 + 0.2 * defeated
MissileDamage(defeated) == IF defeated = 0 THEN 5 ELSE Tenths(1) + 2 * defeated

WallIds(cmds) == {cmds[k].id : k \in {j \in 1..Len(cmds) : cmds[j].type = "WALL"}}

\* What can happen to one missile in one frame: it hits a Wall command (the
\* command's id, > 0), flies on (0), reaches the mothership (-1) or leaves the
\* field (-2).
Fates(cmds) == {0, -1, -2} \cup WallIds(cmds)

\* The fates of a missile that does not reach the mothership.
FieldFates(cmds) == Fates(cmds) \ {-1}

\* The missiles are visited from the last to the first.
RECURSIVE HitsOf(_, _, _)
HitsOf(ms, fate, i) ==
    IF i < 1 THEN <<>>
    ELSE (IF fate[i] > 0
          THEN <<[cid |-> fate[i], damage |-> ms[i]]>>
          ELSE <<>>) \o HitsOf(ms, fate, i - 1)

\* damageCandidates.forEach: command ids in insertion order, each with its hits.
RECURSIVE GroupHits(_)
GroupHits(hits) ==
    IF hits = <<>> THEN <<>>
    ELSE LET c == Head(hits).cid
         IN SelectSeq(hits, LAMBDA h : h.cid = c)
            \o GroupHits(SelectSeq(hits, LAMBDA h : h.cid # c))

\* Fault variant: the shield absorbs the damage at 1x.
impactUnscaled(E, damage) ==
    IF E.shieldCurrent > 0
    THEN [E EXCEPT !.shieldCurrent = @ - damage]
    ELSE LET hull == E.hullIntegrity - damage
         IN IF hull <= 0
            THEN [E EXCEPT !.hullIntegrity = hull,
                           !.isGameOver = TRUE,
                           !.gameOverCalls = @ + 1]
            ELSE [E EXCEPT !.hullIntegrity = hull]

\* A missile inside the mothership's radius: the shield absorbs twice its
\* damage while it is up, else the hull takes the damage; a hull at or below 0
\* sets the flag and calls onGameOver.
impact(E, damage) ==
    IF E.shieldCurrent > 0
    THEN [E EXCEPT !.shieldCurrent = @ - 2 * damage]
    ELSE LET hull == E.hullIntegrity - damage
         IN IF hull <= 0
            THEN [E EXCEPT !.hullIntegrity = hull,
                           !.isGameOver = TRUE,
                           !.gameOverCalls = @ + 1]
            ELSE [E EXCEPT !.hullIntegrity = hull]

\* The missiles that reach the mothership, visited from the last to the first.
RECURSIVE impacts(_, _, _, _)
impacts(E, ms, fate, i) ==
    IF i < 1 THEN E
    ELSE impacts(IF fate[i] = -1 THEN impact(E, ms[i]) ELSE E, ms, fate, i - 1)

Flying(ms, fate) ==
    LET keep == SelectSeq(IdxSeq(Len(ms)), LAMBDA k : fate[k + 1] = 0)
    IN [k \in 1..Len(keep) |-> ms[keep[k] + 1]]

SquadMembers(E, cid) ==
    {i \in Slots : i < E.droneCount /\ E.droneCommandId[i] = cid}

\* The outcomes of the five random draws for one hit: a member with health > 0,
\* or -1 when every draw fell on a member already at health <= 0.
HitTargets(E, cid) ==
    LET members == SquadMembers(E, cid)
    IN {i \in members : E.droneHP[i] > 0}
       \cup (IF \E i \in members : E.droneHP[i] <= 0 THEN {-1} ELSE {})

\* Fault variant: a member at health <= 0 is not taken off the command's count.
applyHitKeepsCount(E, cid, damage, targetIdx) ==
    IF targetIdx = -1 THEN E
    ELSE [E EXCEPT !.droneHP[targetIdx] = @ - damage]

applyHit(E, cid, damage, targetIdx) ==
    IF targetIdx = -1 THEN E
    ELSE
      LET hp == E.droneHP[targetIdx] - damage
          E1 == [E EXCEPT !.droneHP[targetIdx] = hp]
      IN IF hp <= 0 /\ HasCommand(E.commands, cid)
         THEN [E1 EXCEPT !.commands =
                 SetCount(@, cid,
                          Max(0, FindCommand(E.commands, cid).activeDroneCount - 1))]
         ELSE E1

\* Array.from(deadIndices).sort((a, b) => b - a)
RECURSIVE SortedDead(_)
SortedDead(dead) ==
    IF dead = {} THEN <<>>
    ELSE LET m == CHOOSE x \in dead : \A y \in dead : y <= x
         IN <<m>> \o SortedDead(dead \ {m})

RECURSIVE removeDrones(_, _)
removeDrones(E, order) ==
    IF order = <<>> THEN E
    ELSE removeDrones(removeDrone(E, Head(order)), Tail(order))

(* ------------------------------ updateDrones -------------------------- *)
updateWall(E, i, cmd) ==
    IF E.droneDist[i] > 0
    THEN [E EXCEPT !.droneDist[i] = @ - 1]
    ELSE E

\* Fault variant: the command's activeDroneCount is not decremented.
updateSwarmNoDecrement(E, i, cmd) ==
    LET tIdx == IF E.droneTargetId[i] >= cmd.pathLen THEN 0
                ELSE E.droneTargetId[i]
    IN IF E.droneDist[i] = 0
       THEN IF tIdx < cmd.pathLen - 1
            THEN [E EXCEPT !.droneTargetId[i] = @ + 1,
                           !.droneDist[i] = MaxDist]
            ELSE [E EXCEPT !.droneState[i] = STATE_MINING_SEEK,
                           !.droneCommandId[i] = -1,
                           !.droneTargetId[i] = -1,
                           !.droneDist[i] = MaxDist]
       ELSE [E EXCEPT !.droneDist[i] = @ - 1]

\* Fault variant: the waypoint index advances past the last point of the path.
updateSwarmOvershoots(E, i, cmd) ==
    LET tIdx == IF E.droneTargetId[i] >= cmd.pathLen THEN 0
                ELSE E.droneTargetId[i]
    IN IF E.droneDist[i] = 0
       THEN [E EXCEPT !.droneTargetId[i] = @ + 1,
                      !.droneDist[i] = MaxDist]
       ELSE [E EXCEPT !.droneDist[i] = @ - 1]

updateSwarm(E, i, cmd) ==
    LET tIdx == IF E.droneTargetId[i] >= cmd.pathLen THEN 0
                ELSE E.droneTargetId[i]
    IN IF E.droneDist[i] = 0
       THEN IF tIdx < cmd.pathLen - 1
            THEN [E EXCEPT !.droneTargetId[i] = @ + 1,
                           !.droneDist[i] = MaxDist]
            ELSE
              LET left == cmd.activeDroneCount - 1
                  E1 == [E EXCEPT !.droneState[i] = STATE_MINING_SEEK,
                                  !.droneCommandId[i] = -1,
                                  !.droneTargetId[i] = -1,
                                  !.droneDist[i] = MaxDist,
                                  !.commands = SetCount(@, cmd.id, left),
                                  !.cmdMap = SetCount(@, cmd.id, left)]
              IN IF left <= 0
                 THEN removeSquad(E1, cmd.id, "PATH COMPLETE")
                 ELSE E1
       ELSE [E EXCEPT !.droneDist[i] = @ - 1]

\* dmg = 2 * damageMultiplier, tripled by a critical hit, at stride 1
MeleeDamage(mult, crit) == 2 * mult * (IF crit THEN 3 ELSE 1)

\* Fault variant: a shield driven below zero is left there and nothing is
\* carried over to hp.
meleeHitNoCarry(e, dmg, front) ==
    IF front /\ e.shield > 0
    THEN [e EXCEPT !.shield = @ - dmg]
    ELSE [e EXCEPT !.hp = IF e.shield > 0 THEN @ - dmg - dmg \div 2
                          ELSE @ - dmg]

\* Fault variant: a hit that goes past a raised shield deals the plain damage.
meleeHitNoBonus(e, dmg, front) ==
    IF front /\ e.shield > 0
    THEN LET left == e.shield - dmg
         IN IF left < 0
            THEN [e EXCEPT !.hp = @ + left, !.shield = 0]
            ELSE [e EXCEPT !.shield = left]
    ELSE [e EXCEPT !.hp = @ - dmg]

\* One melee hit of damage dmg on enemy e.
meleeHit(e, dmg, front) ==
    IF front /\ e.shield > 0
    THEN LET left == e.shield - dmg
         IN IF left < 0
            THEN [e EXCEPT !.hp = @ + left, !.shield = 0]
            ELSE [e EXCEPT !.shield = left]
    ELSE [e EXCEPT !.hp = IF e.shield > 0 THEN @ - dmg - dmg \div 2
                          ELSE @ - dmg]

\* The melee of a Swarm drone that is still on its path: it strikes enemies[0]
\* when that enemy is within range.
melee(E, c) ==
    IF Len(E.enemies) > 0 /\ c.dist[1] <= MeleeRange
    THEN [E EXCEPT !.enemies[1] =
            meleeHit(@, MeleeDamage(E.damageMultiplier, c.crit), c.front)]
    ELSE E

updateAttacking(E, i) ==
    LET cid == E.droneCommandId[i]
    IN IF ~HasCommand(E.cmdMap, cid)
       THEN [E EXCEPT !.droneState[i] = STATE_MINING_SEEK,
                      !.droneDist[i] = MaxDist]
       ELSE LET cmd == FindCommand(E.cmdMap, cid)
            IN IF cmd.type = "WALL"
               THEN updateWall(E, i, cmd)
               ELSE LET E1 == updateSwarm(E, i, cmd)
                    IN IF E1.droneState[i] = STATE_ATTACKING
                       THEN melee(E1, E.contact)
                       ELSE E1

updateSeeking(E, i, asteroids) ==
    LET tId == E.droneTargetId[i]
        E1 == IF (tId = -1 \/ tId \notin 0..(asteroids - 1)) /\ asteroids > 0
              THEN [E EXCEPT !.droneTargetId[i] = i % asteroids]
              ELSE E
    IN IF E1.droneTargetId[i] \in 0..(asteroids - 1)
       THEN IF E1.droneDist[i] = 0
            THEN LET load == Min(MaxLoad, E1.droneLoad[i] + miningSpeed)
                 IN IF load >= cargoCapacity
                    THEN [E1 EXCEPT !.droneLoad[i] = load,
                                    !.droneState[i] = STATE_RETURNING,
                                    !.droneDist[i] = MaxDist]
                    ELSE [E1 EXCEPT !.droneLoad[i] = load]
            ELSE [E1 EXCEPT !.droneDist[i] = @ - 1]
       ELSE E1

\* Fault variant: the gain is taken from the pool.
PoolDrain(r, gain) == r - gain

\* resources += gain; the pool of the model is full at MaxResources, and a
\* pool that holds more than that stays as it is
Pool(r, gain) == Max(r, Min(MaxResources, r + gain))

updateReturning(E, i) ==
    IF E.droneDist[i] = 0
    THEN [E EXCEPT !.resources = Pool(@, E.droneLoad[i]),
                   !.droneLoad[i] = 0,
                   !.droneState[i] = STATE_MINING_SEEK,
                   !.droneTargetId[i] = -1,
                   !.droneDist[i] = MaxDist]
    ELSE [E EXCEPT !.droneDist[i] = @ - 1]

asteroidCount == 1

updateSingleDrone(E, i) ==
    IF E.droneState[i] = STATE_ATTACKING THEN updateAttacking(E, i)
    ELSE IF E.droneState[i] = STATE_MINING_SEEK
         THEN updateSeeking(E, i, asteroidCount)
    ELSE IF E.droneState[i] = STATE_RETURNING THEN updateReturning(E, i)
    ELSE E

(* ------------------------------ housekeeping -------------------------- *)
\* for (i = commands.length - 1; i >= 0; i--) if (activeDroneCount <= 0) removeSquad
RECURSIVE housekeeping(_, _)
\* Fault variant: depleted commands are left in the registry.
housekeepingNone(E, i) == E

housekeeping(E, i) ==
    IF i < 1 THEN E
    ELSE housekeeping(
           IF E.commands[i].activeDroneCount <= 0
           THEN removeSquad(E, E.commands[i].id, "")
           ELSE E,
           i - 1)

(* ------------------------------ enemy loop ---------------------------- *)
\* for (i = enemies.length - 1; i >= 0; i--): an enemy at hp <= 0 is taken out
\* of the field, pays its reward and counts as defeated; any other enemy in
\* fired launches one missile whose damage depends on the enemies defeated so
\* far.  S carries the enemies, the defeat counter, the resources and the
\* missiles launched in this frame.
RECURSIVE enemySweep(_, _, _)
enemySweep(S, i, fired) ==
    IF i < 1 THEN S
    ELSE enemySweep(
           IF S.enemies[i].hp <= 0
           THEN [S EXCEPT
                   !.enemies = SubSeq(@, 1, i - 1) \o SubSeq(@, i + 1, Len(@)),
                   !.resources =
                      Pool(@, IF S.enemiesDefeated = 0 THEN 5000 ELSE 50000),
                   !.enemiesDefeated = @ + 1]
           ELSE IF i \in fired
                THEN [S EXCEPT !.shots =
                        Append(@, MissileDamage(S.enemiesDefeated))]
                ELSE S,
           i - 1, fired)

(* -------------------------------- waves ------------------------------- *)
\* 50000 * Math.pow(1.5, diff), in tenths
RECURSIVE BaseHp(_)
BaseHp(diff) ==
    IF diff = 0 THEN Tenths(50000) ELSE (3 * BaseHp(diff - 1)) \div 2

\* spawnEnemyInternal(false, type, angle): the ship that joins the field
spawnEnemyInternal(type, diff) ==
    LET hp == BaseHp(diff)
        shield == hp \div 2
    IN IF type = "SCOUT"
       THEN [hp |-> hp \div 2, shield |-> (3 * shield) \div 10]
       ELSE IF type = "DREADNOUGHT"
            THEN [hp |-> 3 * hp, shield |-> 2 * shield]
            ELSE [hp |-> hp, shield |-> shield]

composition(diff) ==
    IF diff > 50 THEN <<"DREADNOUGHT", "FIGHTER", "SCOUT">>
    ELSE IF diff > 30 THEN <<"FIGHTER", "FIGHTER", "SCOUT", "SCOUT">>
    ELSE IF diff > 15 THEN <<"SCOUT", "SCOUT", "FIGHTER">>
    ELSE IF diff > 5 THEN <<"SCOUT", "SCOUT">>
    ELSE <<"SCOUT">>

spawnWave(E, now) ==
    IF Len(E.enemies) > 20 THEN E
    ELSE LET comp == composition(E.enemiesDefeated)
         IN [E EXCEPT
               !.enemies = @ \o [k \in 1..Len(comp) |->
                                   spawnEnemyInternal(comp[k], E.enemiesDefeated)],
               !.message = IF Len(E.enemies) = 0 THEN "HOSTILES INBOUND" ELSE @,
               !.lastEnemySpawn = now]

\* spawnBoss(false): spawnEnemyInternal without a forced type
spawnBoss(E) ==
    LET hp == BaseHp(E.enemiesDefeated)
    IN [E EXCEPT
          !.enemies = Append(@, [hp |-> hp, shield |-> hp \div 2]),
          !.message = IF Len(E.enemies) = 0 THEN "HOSTILES INBOUND" ELSE @]

\* Fault variant: the field is not looked at.
waveDueAnyField(E, now) == now > E.lastEnemySpawn + WaveCooldown

\* gameTime > lastEnemySpawn + 30 and enemies.length === 0
waveDue(E, now) ==
    now > E.lastEnemySpawn + WaveCooldown /\ Len(E.enemies) = 0

\* animate's automatic wave, at the game time now of the frame
autoWave(E, now) == IF waveDue(E, now) THEN spawnWave(E, now) ELSE E

\* With no enemy in the field the shield recharges by dt * 50.
shieldRecharge(E) ==
    IF Len(E.enemies) = 0 /\ E.shieldCurrent < E.shieldMax
    THEN [E EXCEPT !.shieldCurrent = @ + Tenths(5)]
    ELSE E

(* ------------------------------- Init --------------------------------- *)
\* this.state as the constructor sets it: droneSpeed, miningSpeed, shieldRegen
\* and hullRegen in tenths, critChance in hundredths; asteroids counts the
\* asteroids bought.
NewState ==
    [droneSpeed |-> Tenths(1), miningSpeed |-> Tenths(1), cargoCapacity |-> 1,
     critChance |-> 5, shieldRegen |-> 0, hullRegen |-> 0, asteroids |-> 0]

NoCall == [fn |-> "none"]

\* The game is running, no wave has been spawned and nothing has been upgraded.
Quiet ==
    /\ paused = FALSE
    /\ lastEnemySpawn = 0
    /\ state = NewState

\* ... and no function is applied on its own.
Rest ==
    /\ Quiet
    /\ args = NoCall
    /\ result = NoCall

Init ==
    /\ droneCount \in 1..MaxStart
    /\ droneState = [i \in Slots |-> STATE_MINING_SEEK]
    /\ droneTargetId = [i \in Slots |-> -1]
    /\ droneCommandId = [i \in Slots |-> -1]
    /\ droneLoad = [i \in Slots |-> 0]
    /\ droneHP = [i \in Slots |-> Tenths(1)]
    /\ droneDist = [i \in Slots |-> MaxDist]
    /\ commands = <<>>
    /\ nextCommandId = 0
    /\ activeSquads = 0
    /\ wallHP = 1
    /\ resources \in {0, MaxResources}
    /\ enemiesDefeated = 1
    /\ customMaxDronesEnabled = FALSE
    /\ softMaxDrones = MAX_DRONES
    /\ enemies = [j \in 1..MaxEnemies |-> [hp |-> 200, shield |-> 30]]
    /\ damageMultiplier = Tenths(1)
    /\ shieldMax = 0
    /\ shieldCurrent = 0
    /\ hullIntegrity = Tenths(100)
    /\ isGameOver = FALSE
    /\ gameOverCalls = 0
    /\ missiles = <<>>
    /\ gameTime = 0
    /\ message = ""
    /\ pc = "idle"
    /\ hitQueue = <<>>
    /\ deadIndices = {}
    /\ dIdx = 0
    /\ dCount = 0
    /\ cmdMap = <<>>
    /\ Rest

(* -------------------------- external commands ------------------------- *)
Idle == pc = "idle"

\* The drones a path submitted now would assign.
Assignable(E, mode, ratio) ==
    LET needed == DeployNeeded(E.droneCount, ratio)
        pool == Take(EligiblePool(E, mode, needed), needed)
    IN {pool[k] : k \in 1..Len(pool)}

\* The distances of the drones in S to their first target; the oracle says
\* nothing about the other drones.
GeoOf(S) ==
    {[i \in Slots |-> IF i \in S THEN f[i] ELSE 0] : f \in [S -> 0..MaxDist]}

\* onMouseUp -> createSquadFromPending.  state.attackMode and
\* state.deploymentRatio are written only by the HUD (setMode, deploy) and read
\* only here, so the values the HUD last set are the inputs mode and ratio.
SubmitPath(pathLen, mode, ratio) ==
    /\ Idle
    /\ \E geo \in GeoOf(Assignable(Cur, mode, ratio)) :
         LET E == createSquadFromPending(Cur, pathLen, mode, ratio, wallHP, geo)
         IN /\ E.nextCommandId <= MaxCmdId
            /\ Commit(E)
    /\ UNCHANGED <<settingVars, missiles, gameTime, frameVars>>

\* checkSquadClick: the click lands on the path of the k-th command
RecallSquad(k) ==
    /\ Idle
    /\ k \in 1..Len(commands)
    /\ Commit(removeSquad(Cur, commands[k].id, "SQUAD RECALLED"))
    /\ UNCHANGED <<settingVars, missiles, gameTime, frameVars>>

BuyDrones(amt, cost) ==
    /\ Idle
    /\ Commit(buyDrones(Cur, amt, cost, customMaxDronesEnabled, softMaxDrones))
    /\ UNCHANGED <<settingVars, missiles, gameTime, frameVars>>

(* ------------------------------- animate ------------------------------ *)
\* Entering updateDrones: the early return at dCount = 0, else the loop set-up.
EnterDrones(count, cmds) ==
    /\ pc' = IF count = 0 THEN "end" ELSE "drones"
    /\ dIdx' = 0
    /\ dCount' = count
    /\ cmdMap' = IF count = 0 THEN <<>> ELSE cmds

\* Fault variant: the pause flag is not read.
animateNeverPaused == FALSE

\* if (this.paused)
animatePaused == paused

\* animate up to the end of updateMissiles' first loop, the clock apart: the
\* automatic wave at the frame's game time, then the missiles
AnimateStart(fate) ==
    /\ Idle
    /\ ~animatePaused
    /\ fate \in [1..Len(missiles) -> Fates(commands)]
    /\ missiles' = Flying(missiles, fate)
    /\ LET E == impacts(autoWave(Cur, gameTime'), missiles, fate, Len(missiles))
       IN /\ Len(E.enemies) <= MaxEnemies
          /\ enemies' = E.enemies
          /\ lastEnemySpawn' = E.lastEnemySpawn
          /\ shieldCurrent' = E.shieldCurrent
          /\ hullIntegrity' = E.hullIntegrity
          /\ isGameOver' = E.isGameOver
          /\ gameOverCalls' = E.gameOverCalls
          /\ message' = E.message
    /\ UNCHANGED enemiesDefeated
    /\ hitQueue' = GroupHits(HitsOf(missiles, fate, Len(missiles)))
    /\ deadIndices' = {}
    /\ IF hitQueue' # <<>>
       THEN /\ pc' = "damage"
            /\ UNCHANGED <<dIdx, dCount, cmdMap>>
       ELSE EnterDrones(droneCount, commands)
    /\ UNCHANGED <<droneVars, commands, nextCommandId, activeSquads, resources,
                   settingVars>>

AnimateBegin(fate) ==
    /\ gameTime < MaxTime
    /\ gameTime' = gameTime + 1
    /\ AnimateStart(fate)

\* animate with the pause flag set: the scene is rendered, then it returns
PausedBegin ==
    /\ Idle
    /\ animatePaused
    /\ pc' = "render"
    /\ UNCHANGED <<droneVars, commands, nextCommandId, activeSquads, resources,
                   settingVars, shipVars, missiles, gameTime, message, hitQueue,
                   deadIndices, dIdx, dCount, cmdMap>>

PausedEnd ==
    /\ pc = "render"
    /\ pc' = "idle"
    /\ UNCHANGED <<droneVars, commands, nextCommandId, activeSquads, resources,
                   settingVars, shipVars, missiles, gameTime, message, hitQueue,
                   deadIndices, dIdx, dCount, cmdMap>>

\* one queued hit of damageCandidates.forEach
DamageHit(targetIdx) ==
    /\ pc = "damage"
    /\ LET hit == Head(hitQueue)
           E == Cur
       IN /\ IF SquadMembers(E, hit.cid) = {}
             THEN targetIdx = -1
             ELSE targetIdx \in HitTargets(E, hit.cid)
          /\ LET E1 == applyHit(E, hit.cid, hit.damage, targetIdx)
             IN /\ Commit(E1)
                /\ deadIndices' =
                     IF targetIdx # -1 /\ E1.droneHP[targetIdx] <= 0
                     THEN deadIndices \cup {targetIdx}
                     ELSE deadIndices
    /\ hitQueue' = Tail(hitQueue)
    /\ pc' = IF hitQueue' = <<>> THEN "remove" ELSE "damage"
    /\ UNCHANGED <<settingVars, missiles, gameTime, dIdx, dCount>>

\* the removal loop that ends updateMissiles, then the entry of updateDrones
RemoveDead ==
    /\ pc = "remove"
    /\ LET E == removeDrones(Cur, SortedDead(deadIndices))
       IN /\ droneCount' = E.droneCount
          /\ droneState' = E.droneState
          /\ droneTargetId' = E.droneTargetId
          /\ droneCommandId' = E.droneCommandId
          /\ droneLoad' = E.droneLoad
          /\ droneHP' = E.droneHP
          /\ droneDist' = E.droneDist
          /\ EnterDrones(E.droneCount, commands)
    /\ message' = ""
    /\ UNCHANGED <<commands, nextCommandId, activeSquads, resources,
                   settingVars, shipVars, missiles, gameTime, hitQueue,
                   deadIndices>>

\* one iteration of updateDrones' loop, the drone being at c from the enemies
UpdateDroneAt(c) ==
    /\ pc = "drones"
    /\ Commit(updateSingleDrone([Cur EXCEPT !.contact = c], dIdx))
    /\ dIdx' = dIdx + 1
    /\ pc' = IF dIdx' >= dCount THEN "end" ELSE "drones"
    /\ UNCHANGED <<settingVars, missiles, gameTime, hitQueue, deadIndices,
                   dCount>>

\* one iteration of updateDrones' loop with every enemy out of melee range
UpdateDrone == UpdateDroneAt(Far(enemies))

\* the rest of animate: defeated enemies leave, the enemies in fired launch
\* a missile, depleted commands are removed, the shield recharges
\* this.state.squads = this.commands.map(...), the center apart
snapshot(cmds) ==
    [k \in 1..Len(cmds) |->
        [id |-> cmds[k].id, count |-> cmds[k].activeDroneCount,
         type |-> cmds[k].type]]

EndOfFrame(fired) ==
    /\ pc = "end"
    /\ fired \subseteq 1..Len(enemies)
    /\ LET S == enemySweep([enemies |-> enemies,
                            enemiesDefeated |-> enemiesDefeated,
                            resources |-> resources, shots |-> <<>>],
                           Len(enemies), fired)
           E0 == [Cur EXCEPT !.enemies = S.enemies,
                             !.enemiesDefeated = S.enemiesDefeated,
                             !.resources = S.resources]
           E == shieldRecharge(housekeeping(E0, Len(commands)))
       IN /\ Len(missiles) + Len(S.shots) <= MaxMissiles
          /\ missiles' = missiles \o S.shots
          /\ Commit([E EXCEPT !.cmdMap = <<>>])
    /\ pc' = "idle"
    /\ dIdx' = 0
    /\ dCount' = 0
    /\ deadIndices' = {}
    /\ UNCHANGED <<wallHP, customMaxDronesEnabled, softMaxDrones,
                   damageMultiplier, shieldMax, paused, state, gameTime,
                   hitQueue>>

\* the end of a frame, what the presentation layer is handed apart
AnimateEnd(fired) == EndOfFrame(fired) /\ UNCHANGED callVars

\* the end of a frame with the state handed to onStatsUpdate
StatsUpdate(fired) ==
    /\ EndOfFrame(fired)
    /\ args' = [fn |-> "onStatsUpdate"]
    /\ result' = [fn |-> "onStatsUpdate", squads |-> snapshot(commands'),
                  activeSquads |-> activeSquads']

Frame ==
    \/ \E fate \in [1..Len(missiles) -> FieldFates(commands)] : AnimateBegin(fate)
    \/ \E t \in Slots \cup {-1} : DamageHit(t)
    \/ RemoveDead
    \/ UpdateDrone
    \/ \E fired \in SUBSET (1..Len(enemies)) : AnimateEnd(fired)

Command ==
    \/ \E pathLen \in 1..MaxPathLen, mode \in Modes, ratio \in RatioSet :
         SubmitPath(pathLen, mode, ratio)
    \/ \E k \in 1..MaxCmdId : RecallSquad(k)
    \/ \E o \in BuyOffers : BuyDrones(o[1], o[2])

\* The drones and the registry under every command.  The missiles end on a
\* Wall, fly on or leave the field, and the Swarm drones stay out of melee
\* range: the mothership and the enemies' health, which no drone and no command
\* reads, are exercised by HullSpec and MeleeSpec.
Next == Frame \/ Command

Spec == Init /\ [][Next]_vars

(* ------------------- the squad commands on a full store ---------------- *)
\* A loaded session of up to MAX_DRONES drones, and the two squad commands.
AssignInit ==
    /\ droneCount \in 1..MAX_DRONES
    /\ droneState = [i \in Slots |-> STATE_MINING_SEEK]
    /\ droneTargetId = [i \in Slots |-> -1]
    /\ droneCommandId = [i \in Slots |-> -1]
    /\ droneLoad = [i \in Slots |-> 0]
    /\ droneHP = [i \in Slots |-> Tenths(1)]
    /\ droneDist = [i \in Slots |-> MaxDist]
    /\ commands = <<>>
    /\ nextCommandId = 0
    /\ activeSquads = 0
    /\ wallHP = 1
    /\ resources = 0
    /\ enemiesDefeated = 1
    /\ customMaxDronesEnabled = FALSE
    /\ softMaxDrones = MAX_DRONES
    /\ enemies = [j \in 1..MaxEnemies |-> [hp |-> 200, shield |-> 30]]
    /\ damageMultiplier = Tenths(1)
    /\ shieldMax = 0
    /\ shieldCurrent = 0
    /\ hullIntegrity = Tenths(100)
    /\ isGameOver = FALSE
    /\ gameOverCalls = 0
    /\ missiles = <<>>
    /\ gameTime = 0
    /\ message = ""
    /\ pc = "idle"
    /\ hitQueue = <<>>
    /\ deadIndices = {}
    /\ dIdx = 0
    /\ dCount = 0
    /\ cmdMap = <<>>
    /\ Rest

AssignNext ==
    \/ \E pathLen \in 1..MaxPathLen, mode \in Modes, ratio \in RatioSet :
         SubmitPath(pathLen, mode, ratio)
    \/ \E k \in 1..MaxCmdId : RecallSquad(k)

AssignSpec == AssignInit /\ [][AssignNext]_vars

(* ---------------- frames that never stop, without recall --------------- *)
\* requestAnimationFrame re-arms animate in every frame, so the frame loop is
\* weakly fair.  The clock is not observed here and no missile is fired.
QuietBegin == UNCHANGED gameTime /\ AnimateStart(<<>>)

QuietFrame == QuietBegin \/ UpdateDrone \/ AnimateEnd({})

LiveNext ==
    \/ QuietFrame
    \/ \E pathLen \in 1..MaxPathLen, mode \in Modes, ratio \in RatioSet :
         SubmitPath(pathLen, mode, ratio)

LiveSpec == Init /\ [][LiveNext]_vars /\ WF_vars(QuietFrame)

(* --------------------- Walls under fire in a new game ------------------ *)
\* A new game (no enemy defeated yet, so a missile deals 0.5) with enough
\* drones for a Wall of two; paths are submitted and frames are stepped.
WallInit ==
    /\ droneCount \in (MaxStart + 1)..(MAX_DRONES - 1)
    /\ droneState = [i \in Slots |-> STATE_MINING_SEEK]
    /\ droneTargetId = [i \in Slots |-> -1]
    /\ droneCommandId = [i \in Slots |-> -1]
    /\ droneLoad = [i \in Slots |-> 0]
    /\ droneHP = [i \in Slots |-> Tenths(1)]
    /\ droneDist = [i \in Slots |-> MaxDist]
    /\ commands = <<>>
    /\ nextCommandId = 0
    /\ activeSquads = 0
    /\ wallHP = 1
    /\ resources = 0
    /\ enemiesDefeated = 0
    /\ customMaxDronesEnabled = FALSE
    /\ softMaxDrones = MAX_DRONES
    /\ enemies = [j \in 1..MaxEnemies |-> [hp |-> 200, shield |-> 30]]
    /\ damageMultiplier = Tenths(1)
    /\ shieldMax = 0
    /\ shieldCurrent = 0
    /\ hullIntegrity = Tenths(100)
    /\ isGameOver = FALSE
    /\ gameOverCalls = 0
    /\ missiles = <<>>
    /\ gameTime = 0
    /\ message = ""
    /\ pc = "idle"
    /\ hitQueue = <<>>
    /\ deadIndices = {}
    /\ dIdx = 0
    /\ dCount = 0
    /\ cmdMap = <<>>
    /\ Rest

WallNext ==
    \/ Frame
    \/ \E pathLen \in 1..MaxPathLen, mode \in Modes, ratio \in RatioSet :
         SubmitPath(pathLen, mode, ratio)

WallSpec == WallInit /\ [][WallNext]_vars

(* ------------------- the mothership under missile fire ----------------- *)
\* A loaded session with a damaged hull, with or without a shield; no path is
\* drawn, the enemies fire and every missile may reach the mothership.
HullInit ==
    /\ droneCount = 1
    /\ droneState = [i \in Slots |-> STATE_MINING_SEEK]
    /\ droneTargetId = [i \in Slots |-> -1]
    /\ droneCommandId = [i \in Slots |-> -1]
    /\ droneLoad = [i \in Slots |-> 0]
    /\ droneHP = [i \in Slots |-> Tenths(1)]
    /\ droneDist = [i \in Slots |-> MaxDist]
    /\ commands = <<>>
    /\ nextCommandId = 0
    /\ activeSquads = 0
    /\ wallHP = 1
    /\ resources = 0
    /\ enemiesDefeated \in {0, 1}
    /\ customMaxDronesEnabled = FALSE
    /\ softMaxDrones = MAX_DRONES
    /\ enemies = [j \in 1..MaxEnemies |-> [hp |-> 200, shield |-> 30]]
    /\ damageMultiplier = Tenths(1)
    /\ shieldMax \in {0, Tenths(3)}
    /\ shieldCurrent = shieldMax
    /\ hullIntegrity \in {Tenths(1), Tenths(3)}
    /\ isGameOver = FALSE
    /\ gameOverCalls = 0
    /\ missiles = <<>>
    /\ gameTime = 0
    /\ message = ""
    /\ pc = "idle"
    /\ hitQueue = <<>>
    /\ deadIndices = {}
    /\ dIdx = 0
    /\ dCount = 0
    /\ cmdMap = <<>>
    /\ Rest

HullNext ==
    \/ \E fate \in [1..Len(missiles) -> Fates(commands)] : AnimateBegin(fate)
    \/ UpdateDrone
    \/ \E fired \in SUBSET (1..Len(enemies)) : AnimateEnd(fired)

HullSpec == HullInit /\ [][HullNext]_vars

(* ------------------------ Swarm drones in melee ------------------------ *)
\* The health and shield of an enemy that has been in combat for a while.
EnemyStates == {[hp |-> 60, shield |-> 0], [hp |-> 60, shield |-> 30]}

EnemyFields ==
    UNION {[1..n -> EnemyStates] : n \in 1..MaxEnemies}

\* A session with a depleted shield and one or more enemies in the field;
\* paths are submitted, frames are stepped and a Swarm drone can be anywhere
\* relative to the enemies.  The enemies hold their fire.
MeleeInit ==
    /\ droneCount = 1
    /\ droneState = [i \in Slots |-> STATE_MINING_SEEK]
    /\ droneTargetId = [i \in Slots |-> -1]
    /\ droneCommandId = [i \in Slots |-> -1]
    /\ droneLoad = [i \in Slots |-> 0]
    /\ droneHP = [i \in Slots |-> Tenths(1)]
    /\ droneDist = [i \in Slots |-> MaxDist]
    /\ commands = <<>>
    /\ nextCommandId = 0
    /\ activeSquads = 0
    /\ wallHP = 1
    /\ resources = 0
    /\ enemiesDefeated = 0
    /\ customMaxDronesEnabled = FALSE
    /\ softMaxDrones = MAX_DRONES
    /\ enemies \in EnemyFields
    /\ damageMultiplier = Tenths(1)
    /\ shieldMax = Tenths(5)
    /\ shieldCurrent = 0
    /\ hullIntegrity = Tenths(100)
    /\ isGameOver = FALSE
    /\ gameOverCalls = 0
    /\ missiles = <<>>
    /\ gameTime = 0
    /\ message = ""
    /\ pc = "idle"
    /\ hitQueue = <<>>
    /\ deadIndices = {}
    /\ dIdx = 0
    /\ dCount = 0
    /\ cmdMap = <<>>
    /\ Rest

MeleeNext ==
    \/ QuietBegin
    \/ \E c \in Contacts(enemies) : UpdateDroneAt(c)
    \/ AnimateEnd({})
    \/ \E pathLen \in 1..MaxPathLen, mode \in Modes, ratio \in RatioSet :
         SubmitPath(pathLen, mode, ratio)

MeleeSpec == MeleeInit /\ [][MeleeNext]_vars

(* --------------------- where a missile ends a frame -------------------- *)
\* What the tests of updateMissiles' first loop find for one missile after
\* its advance: the Wall commands whose test accepts it, and whether it is
\* inside the mothership's radius, beyond the field's edge or between them.
Geoms(cmds) == [walls : SUBSET WallIds(cmds), at : {"ship", "far", "field"}]

\* Fault variant: the mothership is tested before the Walls.
fateOfShipFirst(cmds, g) ==
    IF g.at = "ship" THEN -1
    ELSE IF g.walls # {}
         THEN cmds[CHOOSE k \in 1..Len(cmds) :
                     /\ cmds[k].id \in g.walls
                     /\ \A j \in 1..(k - 1) : cmds[j].id \notin g.walls].id
         ELSE IF g.at = "far" THEN -2 ELSE 0

\* the first Wall of the registry that accepts the missile ends the tests
\* (continue); only a missile no Wall accepts is tested against the
\* mothership and the edge
fateOf(cmds, g) ==
    IF g.walls # {}
    THEN cmds[CHOOSE k \in 1..Len(cmds) :
                /\ cmds[k].id \in g.walls
                /\ \A j \in 1..(k - 1) : cmds[j].id \notin g.walls].id
    ELSE IF g.at = "ship" THEN -1
         ELSE IF g.at = "far" THEN -2 ELSE 0

MissileFrame(geo) ==
    AnimateBegin([k \in 1..Len(missiles) |-> fateOf(commands, geo[k])])

ResolveNext ==
    \/ \E geo \in [1..Len(missiles) -> Geoms(commands)] : MissileFrame(geo)
    \/ \E t \in Slots \cup {-1} : DamageHit(t)
    \/ RemoveDead
    \/ UpdateDrone
    \/ \E fired \in SUBSET (1..Len(enemies)) : AnimateEnd(fired)
    \/ \E ratio \in RatioSet : SubmitPath(MaxPathLen, "WALL", ratio)

ResolveSpec == WallInit /\ [][ResolveNext]_vars

(* ------------------------ restocking the fleet ------------------------- *)
\* the record initDrone leaves in a slot
Fresh == [state |-> STATE_MINING_SEEK, targetId |-> -1, commandId |-> -1,
          load |-> 0, hp |-> Tenths(1)]

\* the record in slot i of the store
SlotOf(E, i) ==
    [state |-> E.droneState[i], targetId |-> E.droneTargetId[i],
     commandId |-> E.droneCommandId[i], load |-> E.droneLoad[i],
     hp |-> E.droneHP[i]]

\* buyDrones, with what the purchase found in the slots it took: result
\* keeps the old droneCount and the slots that held the record of a drone
\* removed earlier
Purchase(amt, cost) ==
    /\ Idle
    /\ Commit(buyDrones(Cur, amt, cost, customMaxDronesEnabled, softMaxDrones))
    /\ args' = [fn |-> "buyDrones", amt |-> amt, cost |-> cost]
    /\ result' = [fn |-> "buyDrones", from |-> droneCount,
                  stale |-> {i \in droneCount..(droneCount' - 1) :
                                SlotOf(Cur, i) # Fresh}]
    /\ UNCHANGED <<wallHP, customMaxDronesEnabled, softMaxDrones,
                   damageMultiplier, shieldMax, paused, state, missiles,
                   gameTime, frameVars>>

StaleNext ==
    \/ Frame
    \/ \E ratio \in RatioSet : SubmitPath(MaxPathLen, "WALL", ratio)
    \/ \E o \in BuyOffers : Purchase(o[1], o[2])

StaleSpec == Init /\ [][StaleNext]_vars

(* ----------------------- what the panel is shown ----------------------- *)
SnapNext ==
    \/ \E fate \in [1..Len(missiles) -> FieldFates(commands)] : AnimateBegin(fate)
    \/ \E t \in Slots \cup {-1} : DamageHit(t)
    \/ RemoveDead
    \/ UpdateDrone
    \/ \E fired \in SUBSET (1..Len(enemies)) : StatsUpdate(fired)
    \/ \E pathLen \in 1..MaxPathLen, mode \in Modes, ratio \in RatioSet :
         SubmitPath(pathLen, mode, ratio)

SnapSpec == WallInit /\ [][SnapNext]_vars

(* ------------------------- a new game with waves ----------------------- *)
\* The engine as the constructor and loadGame leave it: the purse and the
\* hull come from the saved game, if there is one.
Session(purse, hull) ==
    /\ droneCount = 1
    /\ droneState = [i \in Slots |-> STATE_MINING_SEEK]
    /\ droneTargetId = [i \in Slots |-> -1]
    /\ droneCommandId = [i \in Slots |-> -1]
    /\ droneLoad = [i \in Slots |-> 0]
    /\ droneHP = [i \in Slots |-> Tenths(1)]
    /\ droneDist = [i \in Slots |-> MaxDist]
    /\ commands = <<>>
    /\ nextCommandId = 0
    /\ activeSquads = 0
    /\ wallHP = 1
    /\ resources = purse
    /\ enemiesDefeated = 0
    /\ customMaxDronesEnabled = FALSE
    /\ softMaxDrones = MAX_DRONES \div 2
    /\ enemies = <<>>
    /\ damageMultiplier = Tenths(1)
    /\ shieldMax = 0
    /\ shieldCurrent = 0
    /\ hullIntegrity = hull
    /\ isGameOver = FALSE
    /\ gameOverCalls = 0
    /\ missiles = <<>>
    /\ gameTime = 0
    /\ message = ""
    /\ pc = "idle"
    /\ hitQueue = <<>>
    /\ deadIndices = {}
    /\ dIdx = 0
    /\ dCount = 0
    /\ cmdMap = <<>>
    /\ Quiet

\* The engine as the constructor leaves it when no game was saved.
Constructed == Session(0, Tenths(100))

NewGame ==
    /\ Constructed
    /\ args = NoCall
    /\ result = NoCall

\* a frame of a session that lasts MaxWaveTime
WaveBegin(fate) ==
    /\ gameTime < MaxWaveTime
    /\ gameTime' = gameTime + 1
    /\ AnimateStart(fate)

\* the BOSS button of the HUD
SpawnBoss ==
    /\ Idle
    /\ Len(enemies) < MaxEnemies
    /\ Commit(spawnBoss(Cur))
    /\ UNCHANGED <<settingVars, missiles, gameTime, frameVars>>

\* A new game: the frames spawn the waves, the enemies fire, and the player may
\* call a boss in.
WaveNext ==
    \/ \E fate \in [1..Len(missiles) -> Fates(commands)] : WaveBegin(fate)
    \/ UpdateDrone
    \/ \E fired \in SUBSET (1..Len(enemies)) : AnimateEnd(fired)
    \/ SpawnBoss

WaveSpec == NewGame /\ [][WaveNext]_vars

(* ------------------- the update schedule of updateDrones --------------- *)
\* Math.ceil(a / b)
CeilDiv(a, b) == (a + b - 1) \div b

\* for (i = from; i < to; i += step): the indices visited
\* Fault variant: i++ in place of i += step.
LoopDense(from, to, step) == from..(to - 1)

Loop(from, to, step) == {i \in from..(to - 1) : (i - from) % step = 0}

renderLimit(lag) == IF lag THEN OPTIMIZED_RENDER_CAP ELSE MAX_DRONES

visibleCap(n, lag) == Min(n, renderLimit(lag))

\* Fault variant: Math.floor.
fgStrideFloor(n, lag) ==
    IF ~lag /\ visibleCap(n, lag) > FG_BUDGET
    THEN visibleCap(n, lag) \div FG_BUDGET
    ELSE 1

fgStride(n, lag) ==
    IF ~lag /\ visibleCap(n, lag) > FG_BUDGET
    THEN CeilDiv(visibleCap(n, lag), FG_BUDGET)
    ELSE 1

bgStride(n, lag) == Max(1, CeilDiv(n - visibleCap(n, lag), BG_BUDGET))

\* The drones updateDrones passes to updateSingleDrone in the frame the
\* renderer counts as frame, in LOOP 1 (fg) and in LOOP 2 (bg).
updateDrones(n, lag, frame) ==
    IF n = 0 THEN [fg |-> {}, bg |-> {}]
    ELSE [fg |-> Loop(frame % fgStride(n, lag), visibleCap(n, lag),
                      fgStride(n, lag)),
          bg |-> IF n > visibleCap(n, lag)
                 THEN Loop(visibleCap(n, lag) + (frame % bgStride(n, lag)), n,
                           bgStride(n, lag))
                 ELSE {}]

engineVars == <<droneVars, commands, nextCommandId, activeSquads, resources,
                wallHP, customMaxDronesEnabled, softMaxDrones,
                damageMultiplier, shieldMax, paused, state, shipVars,
                missiles, gameTime, message, frameVars>>

\* The schedule is a function of the population, the optimisation toggle and
\* the renderer's frame counter alone: every population up to MAX_DRONES and
\* either value of the toggle, frame after frame.
StrideInit ==
    /\ Constructed
    /\ args \in [fn : {"updateDrones"}, droneCount : 0..MAX_DRONES,
                  lagOptimization : BOOLEAN, frame : {0}]
    /\ result = NoCall

StrideFrame ==
    /\ args.fn = "updateDrones"
    /\ args.frame < MaxFrame
    /\ result' = [fn |-> "updateDrones", of |-> args,
                  plan |-> updateDrones(args.droneCount, args.lagOptimization,
                                        args.frame)]
    /\ args' = [args EXCEPT !.frame = @ + 1]
    /\ UNCHANGED engineVars

StrideSpec == StrideInit /\ [][StrideFrame]_vars

(* --------------- one Swarm drone at stride 1 and at stride k ----------- *)
\* The drone flies along a straight path; pos and the waypoints are positions
\* on that line, in moves of one frame at stride 1 (droneSpeed * 20 * dt).
Abs(x) == IF x < 0 THEN -x ELSE x

\* droneSpeed * 20 * dt * fgStride
fgMove(stride) == 1 * stride

\* updateSingleDrone for an Attacking drone of a Swarm command: inside move of
\* the waypoint it snaps to it and turns to the next one, or leaves the squad
\* after the last; else it advances by move.
swarmMove(d, pts, move) ==
    IF d.state # STATE_ATTACKING THEN d
    ELSE LET tIdx == IF d.targetId >= Len(pts) THEN 0 ELSE d.targetId
             target == pts[tIdx + 1]
         IN IF Abs(d.pos - target) < move
            THEN IF tIdx < Len(pts) - 1
                 THEN [d EXCEPT !.pos = target, !.targetId = @ + 1]
                 ELSE [d EXCEPT !.pos = target, !.targetId = -1,
                                !.state = STATE_MINING_SEEK]
            ELSE [d EXCEPT !.pos = IF target > @ THEN @ + move ELSE @ - move]

\* n updates in a row
RECURSIVE fly(_, _, _, _)
fly(d, pts, move, n) ==
    IF n = 0 THEN d ELSE fly(swarmMove(d, pts, move), pts, move, n - 1)

\* The same drone and path over updates * stride frames: updated in every
\* frame with the move of stride 1, and updated in every stride-th frame with
\* the move of that stride.
race(pts, stride, updates) ==
    LET d0 == [pos |-> 0, targetId |-> 0, state |-> STATE_ATTACKING]
    IN [fn |-> "race",
        unit |-> fly(d0, pts, fgMove(1), updates * stride),
        strided |-> fly(d0, pts, fgMove(stride), updates)]

\* The first waypoint is up to MaxLeg ahead of the drone; the waypoints of a
\* drawn path are more than 5 apart (addPathPoint), which is 3 moves or more.
RaceInit ==
    /\ Constructed
    /\ args \in [fn : {"race"},
                  path : {<<a, a + g>> : a \in 0..MaxLeg, g \in 3..MaxLeg},
                  stride : 1..MaxStride, updates : 0..MaxUpdates]
    /\ result = NoCall

Race ==
    /\ args.fn = "race"
    /\ result = NoCall
    /\ result' = race(args.path, args.stride, args.updates)
    /\ UNCHANGED <<engineVars, args>>

RaceSpec == RaceInit /\ [][Race]_vars

(* ---------------------------- interpolatePath -------------------------- *)
\* A point is <<x, z>>.  The paths that are resampled turn only at right
\* angles, so the distance of two consecutive points is the distance along one
\* axis and every length is an integer.  A resampled point is kept as its
\* numerators over the common denominator den = count - 1, which makes the
\* arithmetic exact where the program rounds to double precision.
distanceTo(p, q) == Abs(p[1] - q[1]) + Abs(p[2] - q[2])

Scale(p, den) == <<p[1] * den, p[2] * den>>

dists(points) ==
    [j \in 1..(Len(points) - 1) |-> distanceTo(points[j], points[j + 1])]

RECURSIVE SumTo(_, _)
SumTo(ds, j) == IF j = 0 THEN 0 ELSE ds[j] + SumTo(ds, j - 1)

totalLen(points) == SumTo(dists(points), Len(points) - 1)

\* lerpVectors(p, q, alpha) with alpha = num / (segLen * den), times den
lerpVectors(p, q, num, segLen, den) ==
    <<p[1] * den + ((q[1] - p[1]) * num) \div segLen,
      p[2] * den + ((q[2] - p[2]) * num) \div segLen>>

\* Fault variant: the first inner point is put on the start.
targetDistFromZero(i, total) == (i - 1) * total

\* i * step, times den
targetDist(i, total) == i * total

\* the inner loop over the segments, from segment j with distSoFar behind it
RECURSIVE locate(_, _, _, _, _)
locate(points, t, den, j, distSoFar) ==
    IF j > Len(points) - 1
    THEN Scale(points[Len(points)], den)
    ELSE LET segLen == dists(points)[j]
         IN IF t <= (distSoFar + segLen) * den
            THEN lerpVectors(points[j], points[j + 1], t - distSoFar * den,
                             segLen, den)
            ELSE locate(points, t, den, j + 1, distSoFar + segLen)

\* Fault variant: the last point is not pushed.
closingNone(points, den) == <<>>

\* newPoints.push(points[points.length - 1].clone())
closing(points, den) == <<Scale(points[Len(points)], den)>>

interpolatePath(points, count) ==
    IF Len(points) < 2 \/ totalLen(points) = 0
    THEN [fn |-> "interpolatePath", den |-> 1, pts |-> points]
    ELSE LET den == count - 1
         IN [fn |-> "interpolatePath", den |-> den,
             pts |-> <<Scale(points[1], den)>>
                     \o [i \in 1..(count - 2) |->
                           locate(points, targetDist(i, totalLen(points)), den,
                                  1, 0)]
                     \o closing(points, den)]

Grid == (0..MaxCoord) \X (0..MaxCoord)

\* consecutive points differ, in one coordinate only
RightAngled(points) ==
    \A j \in 1..(Len(points) - 1) :
        /\ points[j] # points[j + 1]
        /\ points[j][1] = points[j + 1][1] \/ points[j][2] = points[j + 1][2]

\* pendingPath at onMouseUp: two points or more, each more than 5 from the
\* one before it (addPathPoint)
Paths ==
    UNION {{p \in [1..n -> Grid] : RightAngled(p)} : n \in 2..MaxPoints}

PathInit ==
    /\ Constructed
    /\ args \in [fn : {"interpolatePath"}, points : Paths, count : 2..MaxCount]
    /\ result = NoCall

Interpolate ==
    /\ args.fn = "interpolatePath"
    /\ result = NoCall
    /\ result' = interpolatePath(args.points, args.count)
    /\ UNCHANGED <<engineVars, args>>

PathSpec == PathInit /\ [][Interpolate]_vars

(* ------------------------- the way back home --------------------------- *)
ARRIVE_RADIUS == 10   \* this._pos.distanceTo(this._target) < 10

\* updateSingleDrone for a Returning drone, on the line through the drone
\* and the mothership (pos is the signed distance): inside the radius it
\* delivers, else it moves by move towards the mothership
returning(d, move) ==
    IF d.state # STATE_RETURNING THEN d
    ELSE IF Abs(d.pos) < ARRIVE_RADIUS
         THEN [d EXCEPT !.resources = @ + d.load,
                        !.load = 0,
                        !.state = STATE_MINING_SEEK,
                        !.targetId = -1]
         ELSE [d EXCEPT !.pos = IF @ > 0 THEN @ - move ELSE @ + move]

\* A drone turns back with a full hold at the asteroid it mined, which is
\* outside the radius; the movement budget of its updates is constant.
ReturnInit ==
    /\ Constructed
    /\ args \in [fn : {"returning"}, move : 1..MaxMove]
    /\ result \in [fn : {"returning"}, pos : ARRIVE_RADIUS..MaxHome,
                    state : {STATE_RETURNING}, load : {cargoCapacity},
                    targetId : {0}, resources : {0}]

ReturnUpdate ==
    /\ args.fn = "returning"
    /\ result.state = STATE_RETURNING
    /\ result' = returning(result, args.move)
    /\ UNCHANGED <<engineVars, args>>

\* The drone is updated in every frame of its stride, and the frame loop is
\* re-armed by requestAnimationFrame.
ReturnSpec == ReturnInit /\ [][ReturnUpdate]_vars /\ WF_vars(ReturnUpdate)

(* ------------------------ a missile near a Wall ------------------------ *)
BROAD_MARGIN == 3000      \* distanceToSquared(cmd.center) < radius^2 + 3000
HIT_THRESHOLD_SQ == 100   \* distToSegSq(...) < 100

Sq(u) == u[1] * u[1] + u[2] * u[2]

\* the squared distance of p to the segment from v to w: t = dot / l2 is
\* clamped to 0..1 and p is compared with v + t * (w - v); the divisions are
\* exact on segments along an axis
distToSegSq(p, v, w) ==
    LET l2 == Sq(<<v[1] - w[1], v[2] - w[2]>>)
    IN IF l2 = 0
       THEN Sq(<<p[1] - v[1], p[2] - v[2]>>)
       ELSE LET dot == (p[1] - v[1]) * (w[1] - v[1])
                       + (p[2] - v[2]) * (w[2] - v[2])
                t == Max(0, Min(l2, dot))
            IN Sq(<<p[1] - (v[1] + (t * (w[1] - v[1])) \div l2),
                    p[2] - (v[2] + (t * (w[2] - v[2])) \div l2)>>)

\* the test of one missile against one Wall command in updateMissiles: the
\* center is the mean of the path's points and radius^2 the largest squared
\* distance of a point to it, both kept times the number of points
wallTest(p, path) ==
    LET n == Len(path)
        sx == SumTo([k \in 1..n |-> path[k][1]], n)
        sy == SumTo([k \in 1..n |-> path[k][2]], n)
        off(q) == Sq(<<n * q[1] - sx, n * q[2] - sy>>)
        maxD == CHOOSE d \in {off(path[k]) : k \in 1..n} :
                    \A k \in 1..n : off(path[k]) <= d
        broad == off(p) < maxD + BROAD_MARGIN * n * n
        narrow == \E k \in 1..(n - 1) :
                     distToSegSq(p, path[k], path[k + 1]) < HIT_THRESHOLD_SQ
    IN [fn |-> "wallTest", near |-> narrow, hit |-> broad /\ narrow]

\* Walls along the x axis, of two points or with the middle point as well
WallPaths ==
    {<<<<0, 0>>, <<100 * k, 0>>>> : k \in 1..MaxSpan} \cup
    {<<<<0, 0>>, <<50 * k, 0>>, <<100 * k, 0>>>> : k \in 1..MaxSpan}

\* a missile after its advance, about either end of the longest Wall
Positions ==
    ((-Reach)..Reach \cup (100 * MaxSpan - Reach)..(100 * MaxSpan + Reach))
        \X {0, 6}

HitInit ==
    /\ Constructed
    /\ args \in [fn : {"wallTest"}, p : Positions, path : WallPaths]
    /\ result = NoCall

HitTest ==
    /\ args.fn = "wallTest"
    /\ result = NoCall
    /\ result' = wallTest(args.p, args.path)
    /\ UNCHANGED <<engineVars, args>>

HitSpec == HitInit /\ [][HitTest]_vars

(* ------------------------- the custom drone limit ---------------------- *)
\* Math.max(100, Math.min(MAX_DRONES, limit))
setSoftMaxDrones(limit) == Max(SoftFloor, Min(MAX_DRONES, limit))

ToggleCustomMaxDrones ==
    /\ Idle
    /\ customMaxDronesEnabled' = ~customMaxDronesEnabled
    /\ UNCHANGED <<droneVars, commands, nextCommandId, activeSquads, resources,
                   wallHP, softMaxDrones, damageMultiplier, shieldMax, paused,
                   state, callVars, shipVars, missiles, gameTime, message,
                   frameVars>>

\* the limit typed into the settings dialog
SetSoftMaxDrones(limit) ==
    /\ Idle
    /\ softMaxDrones' = setSoftMaxDrones(limit)
    /\ UNCHANGED <<droneVars, commands, nextCommandId, activeSquads, resources,
                   wallHP, customMaxDronesEnabled, damageMultiplier, shieldMax,
                   paused, state, callVars, shipVars, missiles, gameTime,
                   message, frameVars>>

\* A new game: the drones mine, and the player buys drones and changes the
\* custom limit at will.
CapNext ==
    \/ QuietFrame
    \/ \E o \in BuyOffers : BuyDrones(o[1], o[2])
    \/ ToggleCustomMaxDrones
    \/ \E limit \in 0..(MAX_DRONES + 1) : SetSoftMaxDrones(limit)

CapSpec == NewGame /\ [][CapNext]_vars

(* ----------------------------- a paused game --------------------------- *)
\* togglePause of the HUD writes the engine's flag between two frames.
TogglePause ==
    /\ Idle
    /\ paused' = ~paused
    /\ UNCHANGED <<droneVars, commands, nextCommandId, activeSquads, resources,
                   wallHP, customMaxDronesEnabled, softMaxDrones,
                   damageMultiplier, shieldMax, state, callVars, shipVars,
                   missiles, gameTime, message, frameVars>>

\* The session of HullSpec, whose frames go on while the player pauses and
\* resumes.
PauseNext ==
    \/ HullNext
    \/ PausedBegin
    \/ PausedEnd
    \/ TogglePause

PauseSpec == HullInit /\ [][PauseNext]_vars

TypeOK ==
    /\ droneCount \in 0..MAX_DRONES
    /\ \A i \in Slots :
         /\ droneState[i] \in {STATE_MINING_SEEK, STATE_RETURNING, STATE_ATTACKING}
         /\ droneDist[i] \in 0..MaxDist
         /\ droneLoad[i] \in 0..MaxLoad
    /\ nextCommandId \in 0..MaxCmdId
    /\ resources \in 0..MaxResources
    /\ Len(missiles) <= MaxMissiles

(* ======================== properties of the engine ==================== *)
Live(i) == i \in Slots /\ i < droneCount

\* the frame steps are the steps that start or end inside animate()
FrameStep == pc # "idle" \/ pc' # "idle"

\* the whole record the store keeps for index i
RecordAt(i) ==
    <<droneState[i], droneTargetId[i], droneCommandId[i], droneLoad[i],
      droneHP[i], droneDist[i]>>

(* ---------------------------------- C1 -------------------------------- *)
\* C1: between frames (at a frame boundary and after every external command),
\* every drone below droneCount has commandId >= 0 exactly when it is
\* Attacking, and then its commandId is the id of a command in the registry.
C1_CommandIdIffAttacking ==
    pc = "idle" =>
      \A i \in Slots :
        Live(i) =>
          /\ (droneCommandId[i] >= 0 <=> droneState[i] = STATE_ATTACKING)
          /\ (droneCommandId[i] >= 0 => HasCommand(commands, droneCommandId[i]))

\* a frame has ended with one drone attached to a registered command and
\* another one detached
C1_Witness ==
    /\ pc = "idle"
    /\ gameTime > 0
    /\ \E i, j \in Slots :
         /\ Live(i) /\ Live(j)
         /\ droneState[i] = STATE_ATTACKING
         /\ HasCommand(commands, droneCommandId[i])
         /\ droneState[j] # STATE_ATTACKING
         /\ droneCommandId[j] = -1

(* ---------------------------------- C2 -------------------------------- *)
\* C2: no frame step increases droneCount, and every step that increases it
\* is a purchase of drones.
C2_CountGrowsOnlyByPurchase ==
    [][/\ FrameStep => droneCount' <= droneCount
       /\ droneCount' > droneCount =>
            \E o \in BuyOffers : BuyDrones(o[1], o[2])]_vars

\* a purchase has raised the fleet above what the session started with, and
\* frames have run
C2_Witness ==
    /\ droneCount > MaxStart
    /\ gameTime > 0
    /\ pc = "idle"

(* ---------------------------------- C3 -------------------------------- *)
\* C3: the removal loop of updateMissiles leaves, below the new droneCount,
\* exactly the records of the drones that had health > 0 before it: there is
\* a one-to-one match between the indices after and the live drones before,
\* each index holding the full record of its drone.
C3_RemovalKeepsSurvivors ==
    [][pc = "remove" =>
         LET before == {i \in Slots : Live(i) /\ droneHP[i] > 0}
             after == {j \in Slots : j < droneCount'}
         IN /\ Cardinality(after) = Cardinality(before)
            /\ \E f \in [after -> before] :
                 /\ \A j, k \in after : f[j] = f[k] => j = k
                 /\ \A j \in after : RecordAt(j)' = RecordAt(f[j])]_vars

\* two drones were removed in this frame and a survivor was moved down
C3_Witness ==
    /\ pc = "drones"
    /\ dIdx = 0
    /\ Cardinality(deadIndices) = 2
    /\ droneCount >= 1
    /\ \E i \in deadIndices : i < droneCount

(* ---------------------------------- C4 -------------------------------- *)
IdleDrones ==
    {i \in Slots :
        Live(i) /\ droneState[i] \in {STATE_MINING_SEEK, STATE_RETURNING}}

AttackingDrones == {i \in Slots : Live(i) /\ droneState[i] = STATE_ATTACKING}

\* the record that engine state E keeps for index i
RecordOf(E, i) ==
    <<E.droneState[i], E.droneTargetId[i], E.droneCommandId[i], E.droneLoad[i],
      E.droneHP[i], E.droneDist[i]>>

\* C4: a submitted path of at least 2 points, with at least one drone Seeking
\* or Returning, makes exactly min(max(1, floor(droneCount * ratio)), idle)
\* drones Attacking with the newly allocated id; every other drone keeps its
\* record and the new command's activeDroneCount is that number.  Stated of
\* the handler that SubmitPath commits, in every state a frame can leave.
C4_SubmitAssignsExactly ==
    (pc = "idle" /\ IdleDrones # {}) =>
      \A pathLen \in 2..MaxPathLen, mode \in Modes, ratio \in RatioSet :
        \A geo \in GeoOf(Assignable(Cur, mode, ratio)) :
          LET E == createSquadFromPending(Cur, pathLen, mode, ratio, wallHP, geo)
              n == Min(Max(1, (droneCount * ratio) \div 100),
                       Cardinality(IdleDrones))
              id == E.nextCommandId
              assigned == {i \in Slots : Live(i) /\ E.droneCommandId[i] = id}
          IN /\ id \notin CommandIds(commands)
             /\ E.droneCount = droneCount
             /\ Cardinality(assigned) = n
             /\ assigned \subseteq IdleDrones
             /\ \A i \in assigned : E.droneState[i] = STATE_ATTACKING
             /\ \A i \in Slots \ assigned : RecordOf(E, i) = RecordAt(i)
             /\ HasCommand(E.commands, id)
             /\ FindCommand(E.commands, id).activeDroneCount = n

\* three drones, the ratio asked for two of them, and two were assigned
C4_Witness ==
    /\ pc = "idle"
    /\ message = "SQUAD DEPLOYED"
    /\ droneCount = 3
    /\ Cardinality({i \in Slots : Live(i) /\ droneCommandId[i] = nextCommandId}) = 2
    /\ Cardinality(IdleDrones) = 1

(* ---------------------------------- C5 -------------------------------- *)
\* C5: a path submitted when no drone is Seeking or Returning and, for a Wall,
\* none is Attacking either, is rejected: the registry and the id counter are
\* as before, no drone's state, commandId, target or health changes, and the
\* notice NO IDLE DRONES is emitted.  Stated of the handler that SubmitPath
\* commits, in every state a frame can leave.
C5_EmptyPoolRejected ==
    (pc = "idle" /\ IdleDrones = {}) =>
      \A pathLen \in 2..MaxPathLen, mode \in Modes, ratio \in RatioSet :
        (mode = "WALL" => AttackingDrones = {}) =>
          \A geo \in GeoOf(Assignable(Cur, mode, ratio)) :
            LET E == createSquadFromPending(Cur, pathLen, mode, ratio, wallHP,
                                            geo)
            IN /\ E.commands = commands
               /\ E.nextCommandId = nextCommandId
               /\ E.droneState = droneState
               /\ E.droneCommandId = droneCommandId
               /\ E.droneTargetId = droneTargetId
               /\ E.droneHP = droneHP
               /\ E.message = "NO IDLE DRONES"

\* a Swarm path was refused while every drone was Attacking
C5_Witness ==
    /\ pc = "idle"
    /\ message = "NO IDLE DRONES"
    /\ droneCount >= 1
    /\ IdleDrones = {}

(* ---------------------------------- C6 -------------------------------- *)
\* drone i is a Swarm drone that the coming update finds at the last waypoint
AtFinalWaypoint(i) ==
    /\ Live(i)
    /\ droneState[i] = STATE_ATTACKING
    /\ HasCommand(commands, droneCommandId[i])
    /\ HasCommand(cmdMap, droneCommandId[i])
    /\ LET cmd == FindCommand(cmdMap, droneCommandId[i])
       IN /\ cmd.type = "SWARM"
          /\ droneTargetId[i] = cmd.pathLen - 1
    /\ droneDist[i] = 0

\* C6: the update of a Swarm drone that has reached the last waypoint leaves
\* it Seeking with commandId = -1 and target = -1, and its command with one
\* drone less; when that is 0 the command is out of the registry.
C6_SwarmCompletionDetaches ==
    [][(pc = "drones" /\ AtFinalWaypoint(dIdx)) =>
         LET id == droneCommandId[dIdx]
             left == FindCommand(commands, id).activeDroneCount - 1
         IN /\ droneState'[dIdx] = STATE_MINING_SEEK
            /\ droneCommandId'[dIdx] = -1
            /\ droneTargetId'[dIdx] = -1
            /\ left >= 0
            /\ IF left = 0
               THEN ~HasCommand(commands', id)
               ELSE /\ HasCommand(commands', id)
                    /\ FindCommand(commands', id).activeDroneCount = left]_vars

\* the last drone of a Swarm command has just completed the path
C6_Witness ==
    /\ pc \in {"drones", "end"}
    /\ message = "PATH COMPLETE"
    /\ \E i \in Slots :
         /\ Live(i)
         /\ droneState[i] = STATE_MINING_SEEK
         /\ droneCommandId[i] = -1
         /\ droneTargetId[i] = -1

(* ---------------------------------- C7 -------------------------------- *)
SwarmInRegistry(id) ==
    \E k \in 1..Len(commands) : commands[k].id = id /\ commands[k].type = "SWARM"

\* C7: with frames that keep being stepped and no recall, every Swarm command
\* is eventually out of the registry and every drone attached to it is
\* eventually no longer attached to it, whatever paths are submitted meanwhile.
C7_SwarmEventuallyRemoved ==
    \A id \in 1..MaxCmdId :
      /\ [](SwarmInRegistry(id) => <>(~HasCommand(commands, id)))
      /\ \A i \in Slots :
           []((SwarmInRegistry(id) /\ Live(i) /\ droneCommandId[i] = id)
                => <>(droneCommandId[i] # id))

(* ---------------------------------- C8 -------------------------------- *)
\* the ids of the commands that a step takes out of the registry
Removed == CommandIds(commands) \ CommandIds(commands')

\* C8: a step that removes commands (a recall, a Swarm completion, the
\* housekeeping at the end of a frame) makes every drone of a removed command
\* Seeking with commandId = -1 and target = -1, drops exactly the removed
\* commands from the registry and keeps every other registry entry and every
\* other drone as they were; and in every state, removing an id that is not in
\* the registry changes nothing.
C8_RemovalResetsMembersOnly ==
    /\ [][Removed # {} =>
            /\ commands' = SelectSeq(commands, LAMBDA c : c.id \notin Removed)
            /\ droneCount' = droneCount
            /\ \A i \in Slots :
                 IF Live(i) /\ droneCommandId[i] \in Removed
                 THEN /\ droneState'[i] = STATE_MINING_SEEK
                      /\ droneCommandId'[i] = -1
                      /\ droneTargetId'[i] = -1
                 ELSE /\ droneState'[i] = droneState[i]
                      /\ droneCommandId'[i] = droneCommandId[i]
                      /\ droneTargetId'[i] = droneTargetId[i]
                      /\ droneLoad'[i] = droneLoad[i]
                      /\ droneHP'[i] = droneHP[i]]_vars
    /\ [](\A id \in 0..(MaxCmdId + 1) :
            id \notin CommandIds(commands) =>
              removeSquad(Cur, id, "SQUAD RECALLED") = Cur)

\* one of two commands was recalled: its drone is Seeking and detached, the
\* drone of the other command is still Attacking for it
C8_Witness ==
    /\ pc = "idle"
    /\ message = "SQUAD RECALLED"
    /\ Len(commands) = 1
    /\ \E i, j \in Slots :
         /\ Live(i) /\ Live(j)
         /\ droneState[i] = STATE_MINING_SEEK
         /\ droneCommandId[i] = -1
         /\ droneTargetId[i] = -1
         /\ droneState[j] = STATE_ATTACKING
         /\ droneCommandId[j] = commands[1].id

(* ---------------------------------- C9 -------------------------------- *)
\* C9: a command that a step adds to the registry has an id greater than the
\* id of every command that was in the registry, the ids in the registry are
\* pairwise different, and the id counter goes down only to 0, in a step that
\* empties a registry that was not empty.
C9_IdsMonotonic ==
    [][/\ \A k \in 1..Len(commands') :
            commands'[k].id \notin CommandIds(commands) =>
              \A j \in 1..Len(commands) : commands'[k].id > commands[j].id
       /\ \A j, k \in 1..Len(commands') :
            j # k => commands'[j].id # commands'[k].id
       /\ nextCommandId' < nextCommandId =>
            /\ nextCommandId' = 0
            /\ commands' = <<>>
            /\ commands # <<>>]_vars

\* a second command was created next to an older one, after a frame
C9_Witness ==
    /\ pc = "idle"
    /\ gameTime > 0
    /\ message = "SQUAD DEPLOYED"
    /\ Len(commands) = 2
    /\ commands[2].id = nextCommandId
    /\ commands[1].id < commands[2].id

(* ---------------------------------- C10 ------------------------------- *)
\* a Wall command has just been created
NewWall ==
    /\ pc = "idle"
    /\ message = "SQUAD DEPLOYED"
    /\ HasCommand(commands, nextCommandId)
    /\ FindCommand(commands, nextCommandId).type = "WALL"

Members(id) == {i \in Slots : Live(i) /\ droneCommandId[i] = id}

\* the position of drone i in the assignment order, which is the index order
Rank(S, i) == Cardinality({j \in S : j < i})

\* Math.round(a / b) for a >= 0, b > 0
RoundDiv(a, b) == (2 * a + b) \div (2 * b)

\* C10 as stated: the i-th of the k > 1 drones assigned to a new Wall with m
\* spread points has target round(i / (k - 1) * (m - 1)); a single drone has 0.
C10_WallSpreadRound ==
    NewWall =>
      LET S == Members(nextCommandId)
          k == Cardinality(S)
          m == FindCommand(commands, nextCommandId).spreadLen
      IN \A i \in S :
           droneTargetId[i] =
             IF k > 1 THEN RoundDiv(Rank(S, i) * (m - 1), k - 1) ELSE 0

\* C10, amended: the i-th of the k > 1 drones assigned to a new Wall with m
\* spread points has target floor(i / (k - 1) * (m - 1)); a single drone has 0.
C10_WallSpreadFloor ==
    NewWall =>
      LET S == Members(nextCommandId)
          k == Cardinality(S)
          m == FindCommand(commands, nextCommandId).spreadLen
      IN \A i \in S :
           droneTargetId[i] =
             IF k > 1 THEN (Rank(S, i) * (m - 1)) \div (k - 1) ELSE 0

\* three drones on a new Wall of 1000 spread points: the middle one is at 499
C10_Witness ==
    /\ NewWall
    /\ Cardinality(Members(nextCommandId)) = 3
    /\ \E i \in Members(nextCommandId) :
         /\ Rank(Members(nextCommandId), i) = 1
         /\ droneTargetId[i] = 499

(* ---------------------------------- C11 ------------------------------- *)
\* C11: of the k > 1 drones assigned to a new Wall with m spread points, the
\* first in assignment order has target 0 and the last has target m - 1.
C11_WallEndpoints ==
    NewWall =>
      LET S == Members(nextCommandId)
          k == Cardinality(S)
          m == FindCommand(commands, nextCommandId).spreadLen
      IN k > 1 =>
           \A i \in S :
             /\ Rank(S, i) = 0 => droneTargetId[i] = 0
             /\ Rank(S, i) = k - 1 => droneTargetId[i] = m - 1

\* a new Wall of exactly two drones, one at each end of the formation
C11_Witness ==
    /\ NewWall
    /\ Cardinality(Members(nextCommandId)) = 2
    /\ \E i, j \in Members(nextCommandId) :
         /\ i < j
         /\ droneTargetId[i] = 0
         /\ droneTargetId[j] = SPREAD_COUNT - 1

(* ---------------------------------- C12 ------------------------------- *)
\* the number of points of the sequence that the members of command c follow
PointCount(c) == IF c.type = "WALL" THEN c.spreadLen ELSE c.pathLen

\* C12: in every state, every live Attacking drone has a command in the
\* registry and its target is an index into that command's point sequence:
\* the spread points of a Wall, the path of a Swarm.
C12_TargetRefInBounds ==
    \A i \in Slots :
      (Live(i) /\ droneState[i] = STATE_ATTACKING) =>
        /\ HasCommand(commands, droneCommandId[i])
        /\ droneTargetId[i] >= 0
        /\ droneTargetId[i] < PointCount(FindCommand(commands, droneCommandId[i]))

\* an Attacking drone on the last point of its command's sequence, in a frame
\* that removed a drone by swap-with-last
C12_Witness ==
    /\ pc = "drones"
    /\ deadIndices # {}
    /\ \E i \in Slots :
         /\ Live(i)
         /\ droneState[i] = STATE_ATTACKING
         /\ HasCommand(commands, droneCommandId[i])
         /\ droneTargetId[i] =
              PointCount(FindCommand(commands, droneCommandId[i])) - 1

(* ---------------------------------- C13 ------------------------------- *)
\* the hits at the head of the queue that are aimed at the same command
Batch(q) == SelectSeq(q, LAMBDA h : h.cid = Head(q).cid)

\* the members a hit on command cid can land on (-1: on nobody)
Draws(E, cid) ==
    IF SquadMembers(E, cid) = {} THEN {-1} ELSE HitTargets(E, cid)

\* the health arrays that the resolver can leave after applying the hits ds to
\* command cid, one after the other
RECURSIVE BatchOutcomes(_, _, _)
BatchOutcomes(E, cid, ds) ==
    IF ds = <<>> THEN {E.droneHP}
    ELSE UNION {BatchOutcomes(applyHit(E, cid, Head(ds).damage, t), cid, Tail(ds)) :
                  t \in Draws(E, cid)}

\* C13: when the resolver applies h queued hits to a Wall command with n >= h
\* members, every member loses either nothing or the damage of exactly one of
\* the hits: no member is damaged by two hits of the batch.
C13_HitsOnDistinctMembers ==
    pc = "damage" =>
      LET cid == Head(hitQueue).cid
          ds == Batch(hitQueue)
          members == SquadMembers(Cur, cid)
      IN Len(ds) <= Cardinality(members) =>
           \A hp \in BatchOutcomes(Cur, cid, ds) :
             \A i \in members :
               \/ hp[i] = droneHP[i]
               \/ \E k \in 1..Len(ds) : hp[i] = droneHP[i] - ds[k].damage

(* ---------------------------------- C14 ------------------------------- *)
\* the live drones whose health a step takes from above 0 to 0 or below
Fallen == {i \in Slots : Live(i) /\ droneHP[i] > 0 /\ droneHP'[i] <= 0}

\* C14: while the resolver applies the queued hits, a command's
\* activeDroneCount goes down by exactly the number of its members whose
\* health the hit takes to <= 0, and these members are collected; the removal
\* that follows takes exactly the live drones at health <= 0 out of the store,
\* droneCount goes down by their number, no live drone at health <= 0 is left
\* and the commands' counts stay as the hits left them.
C14_DeadRemovedAndCounted ==
    [][/\ pc = "damage" =>
            /\ deadIndices' = deadIndices \cup Fallen
            /\ droneCount' = droneCount
            /\ Len(commands') = Len(commands)
            /\ \A k \in 1..Len(commands) :
                 commands'[k].activeDroneCount =
                   commands[k].activeDroneCount -
                     Cardinality({i \in Fallen :
                                    droneCommandId[i] = commands[k].id})
       /\ pc = "remove" =>
            /\ deadIndices = {i \in Slots : Live(i) /\ droneHP[i] <= 0}
            /\ droneCount' = droneCount - Cardinality(deadIndices)
            /\ \A i \in Slots : i < droneCount' => droneHP'[i] > 0
            /\ commands' = commands]_vars

\* the resolver has just removed one of the two members of a Wall: the Wall
\* counts one drone and has one member left
C14_Witness ==
    /\ pc = "drones"
    /\ dIdx = 0
    /\ Cardinality(deadIndices) = 1
    /\ \E k \in 1..Len(commands) :
         /\ commands[k].type = "WALL"
         /\ commands[k].activeDroneCount = 1
         /\ Cardinality(SquadMembers(Cur, commands[k].id)) = 1

(* ---------------------------------- C15 ------------------------------- *)
IsWall(id) == HasCommand(commands, id) /\ FindCommand(commands, id).type = "WALL"

IsSwarm(id) == HasCommand(commands, id) /\ FindCommand(commands, id).type = "SWARM"

\* C15: droneCount goes down only in the removal step of the resolver; every
\* drone that this step removes is a live member of a Wall command at health
\* <= 0, and the step leaves as many Seeking drones, Returning drones and
\* Swarm members in the store as there were.
C15_OnlyDeadWallMembersRemoved ==
    [][/\ droneCount' < droneCount => pc = "remove"
       /\ pc = "remove" =>
            /\ \A i \in deadIndices :
                 /\ Live(i)
                 /\ droneState[i] = STATE_ATTACKING
                 /\ IsWall(droneCommandId[i])
                 /\ droneHP[i] <= 0
            /\ \A st \in {STATE_MINING_SEEK, STATE_RETURNING} :
                 Cardinality({i \in Slots : i < droneCount' /\ droneState'[i] = st})
                   = Cardinality({i \in Slots : Live(i) /\ droneState[i] = st})
            /\ Cardinality({i \in Slots :
                              i < droneCount' /\ IsSwarm(droneCommandId'[i])})
                 = Cardinality({i \in Slots :
                                  Live(i) /\ IsSwarm(droneCommandId[i])})]_vars

\* a Wall member has just been removed while a Seeking drone and a Swarm member
\* stay in the store
C15_Witness ==
    /\ pc = "drones"
    /\ dIdx = 0
    /\ deadIndices # {}
    /\ \E i, j \in Slots :
         /\ Live(i) /\ droneState[i] = STATE_MINING_SEEK
         /\ Live(j) /\ IsSwarm(droneCommandId[j])

(* ---------------------------------- C16 ------------------------------- *)
\* the missiles that reach the mothership in a frame begun with these fates
Arrivals(fate) == {k \in 1..Len(missiles) : fate[k] = -1}

\* C16: in a frame in which exactly one missile, of damage d, reaches the
\* mothership: if the shield is > 0 the shield goes down by 2 * d and the hull,
\* the game-over flag and the reports stay; otherwise the hull goes down by d,
\* the shield stays, and if the hull is then <= 0 the flag is set and game over
\* is reported.  A frame in which no missile arrives changes none of them.
C16_ShieldThenHull ==
    [][\A fate \in [1..Len(missiles) -> Fates(commands)] :
         AnimateBegin(fate) =>
           /\ Arrivals(fate) = {} =>
                UNCHANGED <<shieldCurrent, hullIntegrity, isGameOver,
                            gameOverCalls>>
           /\ \A k \in Arrivals(fate) :
                Arrivals(fate) = {k} =>
                  IF shieldCurrent > 0
                  THEN /\ shieldCurrent' = shieldCurrent - 2 * missiles[k]
                       /\ UNCHANGED <<hullIntegrity, isGameOver, gameOverCalls>>
                  ELSE /\ hullIntegrity' = hullIntegrity - missiles[k]
                       /\ shieldCurrent' = shieldCurrent
                       /\ hullIntegrity' <= 0 =>
                            /\ isGameOver'
                            /\ gameOverCalls' = gameOverCalls + 1]_vars

\* the shield was worn down by missiles and a later missile took the hull to 0
C16_Witness ==
    /\ shieldMax > 0
    /\ shieldCurrent <= 0
    /\ hullIntegrity <= 0
    /\ isGameOver
    /\ gameOverCalls = 1

(* ---------------------------------- C20 ------------------------------- *)
\* C20: game over is reported at most once in a session.
C20_GameOverReportedOnce == gameOverCalls <= 1

(* ------------------------------ C17 - C19 ----------------------------- *)
\* the drone that the next update visits is a Swarm drone of a known command
SwarmTurn ==
    /\ pc = "drones"
    /\ droneState[dIdx] = STATE_ATTACKING
    /\ HasCommand(cmdMap, droneCommandId[dIdx])
    /\ FindCommand(cmdMap, droneCommandId[dIdx]).type = "SWARM"

\* an update, at c from the enemies, of a Swarm drone that stays on its path
SwarmUpdate(c) ==
    /\ SwarmTurn
    /\ UpdateDroneAt(c)
    /\ droneState'[dIdx] = STATE_ATTACKING

\* a Swarm update in which the drone strikes enemies[0]
Strike(c) ==
    /\ SwarmUpdate(c)
    /\ Len(enemies) > 0
    /\ c.dist[1] <= MeleeRange

\* C17: a melee hit of damage d that is not from behind, on an enemy with
\* shield s > 0: if d <= s the shield becomes s - d and hp is unchanged; if
\* d > s the shield becomes 0 and hp goes down by d - s.  No step leaves an
\* enemy with a negative shield.
C17_ShieldOverflowCarries ==
    [][/\ \A c \in Contacts(enemies) :
            (Strike(c) /\ c.front /\ enemies[1].shield > 0) =>
              LET d == MeleeDamage(damageMultiplier, c.crit)
                  e == enemies[1]
              IN IF d <= e.shield
                 THEN enemies'[1] = [hp |-> e.hp, shield |-> e.shield - d]
                 ELSE enemies'[1] = [hp |-> e.hp - (d - e.shield), shield |-> 0]
       /\ \A j \in 1..Len(enemies') : enemies'[j].shield >= 0]_vars

\* an enemy that began with hp 6 and shield 3 took a critical hit of 6 from the
\* front: the shield is 0 and hp is 3
C17_Witness ==
    /\ pc \in {"drones", "end"}
    /\ Len(enemies) > 0
    /\ enemies[1] = [hp |-> 30, shield |-> 0]

\* C18 as stated: a melee hit of damage d from behind, or on an enemy whose
\* shield is not > 0, takes exactly d from hp and leaves the shield as it was.
C18_UnshieldedHitPlain ==
    [][\A c \in Contacts(enemies) :
         (Strike(c) /\ ~(c.front /\ enemies[1].shield > 0)) =>
           LET d == MeleeDamage(damageMultiplier, c.crit)
               e == enemies[1]
           IN enemies'[1] = [hp |-> e.hp - d, shield |-> e.shield]]_vars

\* C18, amended: such a hit leaves the shield as it was and takes d from hp
\* when the shield is not > 0, and d + d / 2 when the hit comes from behind
\* while the shield is > 0.
C18_UnshieldedHitBonus ==
    [][\A c \in Contacts(enemies) :
         (Strike(c) /\ ~(c.front /\ enemies[1].shield > 0)) =>
           LET d == MeleeDamage(damageMultiplier, c.crit)
               e == enemies[1]
           IN enemies'[1] =
                [hp |-> IF e.shield > 0 THEN e.hp - d - d \div 2 ELSE e.hp - d,
                 shield |-> e.shield]]_vars

\* an enemy that began with hp 6 and shield 3 took a hit of 2 from behind: hp
\* is 3 and the shield is still 3
C18_Witness ==
    /\ pc \in {"drones", "end"}
    /\ Len(enemies) > 0
    /\ enemies[1] = [hp |-> 30, shield |-> 30]

\* the enemies with hp > 0 that no live enemy is nearer than
Nearest(c) ==
    LET live == {j \in 1..Len(enemies) : enemies[j].hp > 0}
    IN {j \in live : \A k \in live : c.dist[j] <= c.dist[k]}

\* C19: a Swarm drone on its path damages an enemy in an update exactly when
\* it is within melee range of the nearest live enemy, and the enemy it
\* damages is that nearest live enemy.
C19_StrikesNearestEnemy ==
    [][\A c \in Contacts(enemies) :
         SwarmUpdate(c) =>
           LET hit == {j \in 1..Len(enemies) : enemies'[j] # enemies[j]}
           IN /\ hit # {} <=> \E j \in Nearest(c) : c.dist[j] <= MeleeRange
              /\ hit \subseteq Nearest(c)]_vars


(* ---------------------------------- C21 ------------------------------- *)
\* C21: once the game is over (the flag was set by a hull at or below 0 in an
\* earlier frame), a frame that starts changes none of the drone records,
\* droneCount, the enemies, the missiles, the resources, the hull integrity
\* and the command registry.
C21_TerminalFreezesGameplay ==
    [][(isGameOver /\ pc = "idle") =>
         UNCHANGED <<droneVars, enemies, missiles, resources, hullIntegrity,
                     commands>>]_vars


(* ---------------------------------- C22 ------------------------------- *)
\* C22: a frame taken while the pause flag is set changes nothing of the
\* simulation: game time, the drone records, droneCount, the missiles, the
\* enemies, the resources, the shield, the hull and the command registry are
\* the same before and after every step of it.
C22_PausedFrameChangesNothing ==
    [][(paused /\ FrameStep) =>
         UNCHANGED <<gameTime, droneVars, missiles, enemies, enemiesDefeated,
                     resources, shieldCurrent, hullIntegrity, commands,
                     nextCommandId, activeSquads>>]_vars

\* inside a frame of a paused game that has missiles in flight and a drone on
\* its way
C22_Witness ==
    /\ paused
    /\ pc = "render"
    /\ gameTime > 0
    /\ Len(missiles) > 0
    /\ \E i \in Slots : Live(i) /\ droneDist[i] > 0


(* ---------------------------------- C23 ------------------------------- *)
\* C23: a frame adds enemies to the field (an automatic wave) only when the
\* field was empty and the frame's game time is more than the cooldown after
\* the previous wave; the wave is then timed at that game time.
C23_WaveOnlyOnEmptyFieldAfterCooldown ==
    [][(lastEnemySpawn' # lastEnemySpawn
          \/ (FrameStep /\ Len(enemies') > Len(enemies))) =>
         /\ Len(enemies) = 0
         /\ gameTime' > lastEnemySpawn + WaveCooldown
         /\ lastEnemySpawn' = gameTime'
         /\ Len(enemies') > 0]_vars

\* the ship of the first wave is alone in the field although the cooldown
\* has elapsed again since that wave
C23_Witness ==
    /\ pc = "idle"
    /\ lastEnemySpawn > 0
    /\ gameTime > lastEnemySpawn + WaveCooldown
    /\ Len(enemies) = 1


(* ---------------------------------- C24 ------------------------------- *)
\* C24: whatever the population, the optimisation toggle and the frame
\* counter, one frame updates at most FG_BUDGET foreground drones and at most
\* BG_BUDGET background drones.
C24_FrameWorkBounded ==
    result.fn = "updateDrones" =>
      /\ Cardinality(result.plan.fg) <= FG_BUDGET
      /\ Cardinality(result.plan.bg) <= BG_BUDGET

\* a frame of a full store without the optimisation: the foreground stride is
\* above 1 and the frame uses the whole foreground budget
C24_Witness ==
    /\ result.fn = "updateDrones"
    /\ result.of.droneCount = MAX_DRONES
    /\ ~result.of.lagOptimization
    /\ fgStride(MAX_DRONES, FALSE) > 1
    /\ Cardinality(result.plan.fg) = FG_BUDGET


(* ---------------------------------- C25 ------------------------------- *)
\* C25: over the same number of frames (a multiple of the stride) a drone
\* updated in every frame and the same drone updated in every k-th frame with
\* its move scaled by k end at the same position, on the same waypoint and in
\* the same state, also when a waypoint is reached on the way.
C25_StrideEquivalence ==
    result.fn = "race" => result.unit = result.strided


(* ---------------------------------- C26 ------------------------------- *)
\* C26: interpolatePath of a path of two points or more and a count N returns
\* exactly N points, the first being the first point of the path and the last
\* being its last point.
C26_CountAndEndpoints ==
    result.fn = "interpolatePath" =>
      LET points == args.points
      IN /\ Len(result.pts) = args.count
         /\ result.pts[1] = Scale(points[1], result.den)
         /\ result.pts[Len(result.pts)] = Scale(points[Len(points)], result.den)

\* a path with a corner was resampled to MaxCount points
C26_Witness ==
    /\ result.fn = "interpolatePath"
    /\ Len(args.points) = 3
    /\ args.points[1][2] # args.points[3][2]
    /\ args.points[1][1] # args.points[3][1]
    /\ args.count = MaxCount
    /\ Len(result.pts) = MaxCount

(* ---------------------------------- C27 ------------------------------- *)
\* the arc lengths (times den) at which the path passes through q
ArcAt(points, den, q) ==
    {SumTo(dists(points), j - 1) * den + distanceTo(Scale(points[j], den), q) :
       j \in {k \in 1..(Len(points) - 1) :
                distanceTo(Scale(points[k], den), q)
                  + distanceTo(q, Scale(points[k + 1], den))
                = dists(points)[k] * den}}

\* C27: the i-th point returned (counted from 0) lies on the path at arc
\* length i * total / (N - 1) from its start; for a straight path of two
\* points and length L, consecutive points returned are L / (N - 1) apart.
C27_EvenArcLength ==
    result.fn = "interpolatePath" =>
      LET points == args.points
          total == totalLen(points)
      IN /\ \A i \in 0..(args.count - 1) :
              i * total \in ArcAt(points, result.den, result.pts[i + 1])
         /\ Len(points) = 2 =>
              \A k \in 1..(args.count - 1) :
                 distanceTo(result.pts[k], result.pts[k + 1]) = total

\* the straight path from (0,0) to (2,0) resampled to 3 points, and a path
\* with a corner resampled to 3 points: the middle one is the corner
C27_Witness ==
    /\ result.fn = "interpolatePath"
    /\ args.count = 3
    /\ \/ /\ args.points = << <<0, 0>>, <<2, 0>> >>
          /\ result.pts = << <<0, 0>>, <<2, 0>>, <<4, 0>> >>
       \/ /\ args.points = << <<0, 0>>, <<1, 0>>, <<1, 1>> >>
          /\ result.pts = << <<0, 0>>, <<2, 0>>, <<2, 2>> >>


(* ---------------------------------- C28 ------------------------------- *)
\* C28: droneCount stays within 0..MAX_DRONES, and a step that raises it
\* while the custom limit is enabled does not raise it above
\* min(MAX_DRONES, softMaxDrones).
C28_CountWithinLimits ==
    /\ [](droneCount \in 0..MAX_DRONES)
    /\ [][(customMaxDronesEnabled /\ droneCount' > droneCount) =>
            droneCount' <= Min(MAX_DRONES, softMaxDrones)]_vars

\* with the custom limit enabled below MAX_DRONES, a purchase of more drones
\* than there was room for has filled the store up to the limit
C28_Witness ==
    /\ customMaxDronesEnabled
    /\ softMaxDrones < MAX_DRONES
    /\ droneCount = softMaxDrones
    /\ message = "PARTIAL FILL"


(* ------------------------------- the shop ------------------------------ *)
\* The multipliers the upgrade panel offers.
Multipliers == {1, 10, 100}

Upgrades == {"buySpeed", "buyMining", "buyCargo", "buyCrit", "buyShield",
             "buyRegen", "buyDamage", "buyWallHP", "buyAsteroid",
             "buyShieldRegen"}

\* const c of each upgrade, in credits, from the levels as they stand
cost(fn, m) ==
    CASE fn = "buySpeed" ->
           500 * (1 + RoundDiv(state.droneSpeed - Tenths(1), 1)) * m
      [] fn = "buyMining" ->
           800 * (1 + RoundDiv(state.miningSpeed - Tenths(1), 2)) * m
      [] fn = "buyCargo" -> 1000 * state.cargoCapacity * m
      [] fn = "buyCrit" -> 2000 * (1 + (state.critChance \div 10)) * m
      [] fn = "buyShield" ->
           ((5000 * (Tenths(500) + shieldMax)) \div Tenths(500)) * m
      [] fn = "buyRegen" ->
           ((5000 * (Tenths(1) + state.hullRegen)) \div Tenths(1)) * m
      [] fn = "buyDamage" -> 5000 * RoundDiv(damageMultiplier, Tenths(1)) * m
      [] fn = "buyWallHP" -> 3000 * (wallHP - 1) * m
      [] fn = "buyAsteroid" -> 500 * m
      [] fn = "buyShieldRegen" ->
           ((8000 * (Tenths(1) + state.shieldRegen)) \div Tenths(1)) * m
      [] fn = "repairHull" -> 500

\* the price buyDrones asks for the offer, cut to the room that is left
droneCost(amt, price) ==
    LET availableSpace ==
            purchaseLimit(customMaxDronesEnabled, softMaxDrones) - droneCount
    IN IF amt > availableSpace /\ availableSpace > 0
       THEN PartialCost(amt, price, availableSpace)
       ELSE price

\* Fault variant: the purse is not looked at.
affordAlways(purse, c) == TRUE

\* if (this.state.resources >= c)
afford(purse, c) == purse >= c

\* The shape the upgrades share: charge c and set the stats, if c is afforded.
Bought(c, st, sMax, sCur, dmg, wall) ==
    /\ Idle
    /\ IF afford(resources, c)
       THEN /\ resources' = resources - c
            /\ state' = st
            /\ shieldMax' = sMax
            /\ shieldCurrent' = sCur
            /\ damageMultiplier' = dmg
            /\ wallHP' = wall
       ELSE UNCHANGED <<resources, state, shieldMax, shieldCurrent,
                        damageMultiplier, wallHP>>
    /\ UNCHANGED <<droneVars, commands, nextCommandId, activeSquads,
                   customMaxDronesEnabled, softMaxDrones, paused, callVars,
                   enemies, enemiesDefeated, hullIntegrity, isGameOver,
                   gameOverCalls, lastEnemySpawn, missiles, gameTime, message,
                   frameVars>>

Stat(c, st) ==
    Bought(c, st, shieldMax, shieldCurrent, damageMultiplier, wallHP)

BuySpeed(m) ==
    Stat(cost("buySpeed", m), [state EXCEPT !.droneSpeed = @ + m])

BuyMining(m) ==
    Stat(cost("buyMining", m), [state EXCEPT !.miningSpeed = @ + 2 * m])

BuyCargo(m) ==
    Stat(cost("buyCargo", m), [state EXCEPT !.cargoCapacity = @ + 1 * m])

BuyCrit(m) ==
    Stat(cost("buyCrit", m), [state EXCEPT !.critChance = @ + m])

BuyShield(m) ==
    Bought(cost("buyShield", m), state, shieldMax + Tenths(100) * m,
           shieldMax + Tenths(100) * m, damageMultiplier, wallHP)

BuyRegen(m) ==
    Stat(cost("buyRegen", m), [state EXCEPT !.hullRegen = @ + m])

BuyDamage(m) ==
    Bought(cost("buyDamage", m), state, shieldMax, shieldCurrent,
           damageMultiplier + m, wallHP)

BuyWallHP(m) ==
    Bought(cost("buyWallHP", m), state, shieldMax, shieldCurrent,
           damageMultiplier, wallHP + 1 * m)

BuyAsteroid(m) ==
    Stat(cost("buyAsteroid", m), [state EXCEPT !.asteroids = @ + m])

BuyShieldRegen(m) ==
    Stat(cost("buyShieldRegen", m), [state EXCEPT !.shieldRegen = @ + 2 * m])

RepairHull ==
    /\ Idle
    /\ IF hullIntegrity < Tenths(100) /\ afford(resources, cost("repairHull", 1))
       THEN /\ resources' = resources - cost("repairHull", 1)
            /\ hullIntegrity' = Min(Tenths(100), hullIntegrity + Tenths(10))
       ELSE UNCHANGED <<resources, hullIntegrity>>
    /\ UNCHANGED <<droneVars, commands, nextCommandId, activeSquads,
                   settingVars, enemies, enemiesDefeated, shieldCurrent,
                   isGameOver, gameOverCalls, lastEnemySpawn, missiles,
                   gameTime, message, frameVars>>

\* the command of the panel that goes by the name fn
Issue(fn, m) ==
    CASE fn = "buySpeed" -> BuySpeed(m)
      [] fn = "buyMining" -> BuyMining(m)
      [] fn = "buyCargo" -> BuyCargo(m)
      [] fn = "buyCrit" -> BuyCrit(m)
      [] fn = "buyShield" -> BuyShield(m)
      [] fn = "buyRegen" -> BuyRegen(m)
      [] fn = "buyDamage" -> BuyDamage(m)
      [] fn = "buyWallHP" -> BuyWallHP(m)
      [] fn = "buyAsteroid" -> BuyAsteroid(m)
      [] fn = "buyShieldRegen" -> BuyShieldRegen(m)

\* the purses and hulls a session is loaded with
ShopInit ==
    /\ \E purse \in {0, 499, MaxCredits},
          hull \in {Tenths(100), Tenths(85)} : Session(purse, hull)
    /\ args = NoCall
    /\ result = NoCall

ShopNext ==
    \/ \E m \in Multipliers :
         \/ BuySpeed(m)
         \/ BuyMining(m)
         \/ BuyCargo(m)
         \/ BuyCrit(m)
         \/ BuyShield(m)
         \/ BuyRegen(m)
         \/ BuyDamage(m)
         \/ BuyWallHP(m)
         \/ BuyAsteroid(m)
         \/ BuyShieldRegen(m)
    \/ RepairHull
    \/ \E o \in BuyOffers : BuyDrones(o[1], o[2])

ShopSpec == ShopInit /\ [][ShopNext]_vars

(* ---------------------------------- C29 ------------------------------- *)
stats == <<state, shieldMax, shieldCurrent, damageMultiplier, wallHP,
           hullIntegrity>>

\* C29: a purchase or upgrade command issued with resources below the cost
\* it would charge changes neither resources nor droneCount nor any stat.
C29_UnaffordableIsNoOp ==
    [][/\ \A fn \in Upgrades, m \in Multipliers :
            (Issue(fn, m) /\ resources < cost(fn, m)) =>
                UNCHANGED <<resources, droneCount, stats>>
       /\ (RepairHull /\ resources < cost("repairHull", 1)) =>
                UNCHANGED <<resources, droneCount, stats>>
       /\ \A o \in BuyOffers :
            (BuyDrones(o[1], o[2]) /\ resources < droneCost(o[1], o[2])) =>
                UNCHANGED <<resources, droneCount, stats>>]_vars

\* after some upgrades were bought, the purse no longer pays for the next
\* level of one that was bought before, nor for a repair the hull needs
C29_Witness ==
    /\ state.droneSpeed > Tenths(1)
    /\ 0 < resources
    /\ resources < cost("buySpeed", 1)
    /\ resources < cost("repairHull", 1)
    /\ hullIntegrity < Tenths(100)


(* ---------------------------------- C30 ------------------------------- *)
\* The update of an Attacking drone finds the drone's command in cmdMap:
\* the branch of updateAttacking for an unknown commandId is not entered.
UpdateFindsCommand ==
    (pc = "drones" /\ droneState[dIdx] = STATE_ATTACKING) =>
        HasCommand(cmdMap, droneCommandId[dIdx])


(* ---------------------------------- C31 ------------------------------- *)
\* C31: between frames, every command of the registry has activeDroneCount
\* equal to the number of live drones whose commandId is the command's id.
C31_CountIsMembership ==
    Idle => \A k \in 1..Len(commands) :
                commands[k].activeDroneCount =
                    Cardinality(Members(commands[k].id))


(* ---------------------------------- C32 ------------------------------- *)
\* C32: at the end of a frame no command with activeDroneCount <= 0 is left
\* in the registry, the squad list handed to the panel holds the registry's
\* commands with their activeDroneCount, and activeSquads is the registry's
\* size.
C32_SnapshotIsRegistry ==
    [][(pc = "end" /\ pc' = "idle") =>
         /\ \A k \in 1..Len(commands') : commands'[k].activeDroneCount > 0
         /\ result'.fn = "onStatsUpdate"
         /\ Len(result'.squads) = Len(commands')
         /\ \A k \in 1..Len(commands') :
               /\ result'.squads[k].id = commands'[k].id
               /\ result'.squads[k].count = commands'[k].activeDroneCount
         /\ result'.activeSquads = Len(commands')]_vars

\* a frame has ended after drones fell: the command that was first in the
\* registry is gone and the panel is shown the one that is left
C32_Witness ==
    /\ Idle
    /\ result.fn = "onStatsUpdate"
    /\ droneCount <= MaxStart
    /\ Len(commands) = 1
    /\ commands[1].id = 2
    /\ Len(result.squads) = 1
    /\ result.squads[1].id = 2


(* ---------------------------------- C33 ------------------------------- *)
\* C33: a missile whose position is within the hit threshold of a segment
\* of a Wall's path is registered as a hit on the Wall.
C33_BroadPhaseComplete ==
    result.fn = "wallTest" => (result.near => result.hit)


(* ---------------------------------- C34 ------------------------------- *)
\* the missiles in flight that geo puts on a Wall
OnWall(geo) == {k \in 1..Len(missiles) : geo[k].walls # {}}

\* the missiles in flight that geo puts on no Wall and at the place at
Clear(geo, at) ==
    {k \in 1..Len(missiles) : geo[k].walls = {} /\ geo[k].at = at}

\* C34: in the first loop of updateMissiles every missile is resolved at
\* most once: a missile on a Wall leaves the live list and is queued once,
\* against one of the Walls it is on; the mothership is damaged by the
\* missiles on no Wall only; and no drone's health changes in that loop.
C34_MissileResolvedOnce ==
    [][\A geo \in [1..Len(missiles) -> Geoms(commands)] :
         MissileFrame(geo) =>
           /\ Len(missiles') = Cardinality(Clear(geo, "field"))
           /\ Len(hitQueue') = Cardinality(OnWall(geo))
           /\ \A k \in OnWall(geo) :
                 \E h \in 1..Len(hitQueue') :
                    /\ hitQueue'[h].cid \in geo[k].walls
                    /\ hitQueue'[h].damage = missiles[k]
           /\ Clear(geo, "ship") = {} =>
                 UNCHANGED <<shieldCurrent, hullIntegrity, isGameOver>>
           /\ UNCHANGED <<droneHP, droneCount>>]_vars

\* the first loop has ended with two missiles queued against Walls, after
\* an earlier missile reached the mothership
C34_Witness ==
    /\ pc = "damage"
    /\ Len(hitQueue) = 2
    /\ hullIntegrity < Tenths(100)


(* ---------------------------------- C35 ------------------------------- *)
\* the stride at which drone i of n is updated
StrideOf(i, n, lag) ==
    IF i < visibleCap(n, lag) THEN fgStride(n, lag) ELSE bgStride(n, lag)

\* the frames among s consecutive ones, from frame on, that update drone i
UpdatesOf(i, n, lag, frame, s) ==
    {g \in frame..(frame + s - 1) :
        i \in updateDrones(n, lag, g).fg \cup updateDrones(n, lag, g).bg}

\* C35: with the population and the toggle constant, the s frames that start
\* with the frame just run update every drone of stride s exactly once, and
\* the frame just run updates no drone in both loops.
C35_OncePerStride ==
    result.fn = "updateDrones" =>
      LET n == result.of.droneCount
          lag == result.of.lagOptimization
      IN /\ \A i \in 0..(n - 1) :
               Cardinality(UpdatesOf(i, n, lag, result.of.frame,
                                     StrideOf(i, n, lag))) = 1
         /\ result.plan.fg \cap result.plan.bg = {}
         /\ result.plan.fg \cup result.plan.bg \subseteq 0..(n - 1)

\* a full store with the optimisation on, some frames in: the background
\* stride is above 1, and the frame updated one drone in each loop
C35_Witness ==
    /\ result.fn = "updateDrones"
    /\ result.of.droneCount = MAX_DRONES
    /\ result.of.lagOptimization
    /\ bgStride(MAX_DRONES, TRUE) > 1
    /\ result.of.frame >= bgStride(MAX_DRONES, TRUE)
    /\ result.plan.fg # {}
    /\ result.plan.bg # {}


(* ---------------------------------- C36 ------------------------------- *)
\* C36: a purchase that raises droneCount leaves a fresh record (Seeking,
\* commandId -1, targetId -1, load 0, health 1) in every slot from the old
\* droneCount up to the new one, whatever the slot held, and changes neither
\* the record of a drone that was there nor the command registry.
C36_PurchaseAppendsFresh ==
    [][droneCount' > droneCount =>
         /\ \A i \in droneCount..(droneCount' - 1) :
               /\ droneState'[i] = STATE_MINING_SEEK
               /\ droneCommandId'[i] = -1
               /\ droneTargetId'[i] = -1
               /\ droneLoad'[i] = 0
               /\ droneHP'[i] = Tenths(1)
         /\ \A i \in 0..(droneCount - 1) :
               /\ droneState'[i] = droneState[i]
               /\ droneCommandId'[i] = droneCommandId[i]
               /\ droneTargetId'[i] = droneTargetId[i]
               /\ droneLoad'[i] = droneLoad[i]
               /\ droneHP'[i] = droneHP[i]
         /\ UNCHANGED <<commands, nextCommandId, activeSquads>>]_vars

\* the last purchase took a slot that held the record of a removed drone
C36_Witness ==
    /\ result.fn = "buyDrones"
    /\ result.stale # {}
    /\ droneCount > result.from
    /\ droneCommandId[result.from] = -1


(* ---------------------------------- C37 ------------------------------- *)
\* C37: a Returning drone that keeps being updated eventually arrives: it
\* has delivered its load, holds nothing, and is Seeking without a target.
C37_ReturningArrives ==
    <>(/\ result.state = STATE_MINING_SEEK
       /\ result.resources = cargoCapacity
       /\ result.load = 0
       /\ result.targetId = -1)


(* ---------------------------------- C38 ------------------------------- *)
\* C38: the mothership's shield stays within 0..shieldMax.
C38_ShieldInRange == 0 <= shieldCurrent /\ shieldCurrent <= shieldMax


(* ---------------------------------- C39 ------------------------------- *)
\* the upgrades the panel offers
PanelUpgrades == Upgrades \ {"buyAsteroid"}

\* the cost the panel shows for an upgrade and gates its button on
\* (speedCost .. regenCost), from the stats it is handed
panelCost(fn, m) ==
    LET speedLvl == RoundDiv(state.droneSpeed - Tenths(1), 1)
        mineLvl == RoundDiv(state.miningSpeed - Tenths(1), 2)
    IN CASE fn = "buySpeed" -> 500 * (1 + speedLvl) * m
         [] fn = "buyMining" -> 800 * (1 + mineLvl) * m
         [] fn = "buyCargo" -> 1000 * state.cargoCapacity * m
         [] fn = "buyCrit" -> 2000 * (1 + (state.critChance \div 10)) * m
         [] fn = "buyDamage" -> 5000 * RoundDiv(damageMultiplier, Tenths(1)) * m
         [] fn = "buyWallHP" -> 3000 * wallHP * m
         [] fn = "buyShield" ->
              ((5000 * (Tenths(500) + shieldMax)) \div Tenths(500)) * m
         [] fn = "buyShieldRegen" ->
              ((8000 * (Tenths(1) + state.shieldRegen)) \div Tenths(1)) * m
         [] fn = "buyRegen" ->
              ((5000 * (Tenths(1) + state.hullRegen)) \div Tenths(1)) * m

\* C39: for every upgrade of the panel and every multiplier, the cost the
\* panel shows is the cost the engine checks and deducts in the same state.
C39_PanelCostIsEngineCost ==
    \A fn \in PanelUpgrades, m \in Multipliers : panelCost(fn, m) = cost(fn, m)


(* ---------------------------------- C40 ------------------------------- *)
\* A session in which the drones mine while the player shops.
PoolInit ==
    /\ \E purse \in {0, MaxCredits \div 5} : Session(purse, Tenths(100))
    /\ args = NoCall
    /\ result = NoCall

PoolNext == QuietFrame \/ ShopNext

PoolSpec == PoolInit /\ [][PoolNext]_vars

\* C40: resources are never negative; a step of a frame does not decrease
\* them; and a purchase or upgrade that is afforded decreases them by
\* exactly its cost.
C40_PoolNeverNegative ==
    /\ [](resources >= 0)
    /\ [][/\ (FrameStep => resources' >= resources)
          /\ \A fn \in Upgrades, m \in Multipliers :
               (Issue(fn, m) /\ resources >= cost(fn, m)) =>
                   resources' = resources - cost(fn, m)
          /\ (RepairHull /\ resources' # resources) =>
                   resources' = resources - cost("repairHull", 1)
          /\ \A o \in BuyOffers :
               (BuyDrones(o[1], o[2]) /\ droneCount' > droneCount) =>
                   resources' = resources - droneCost(o[1], o[2])]_vars

\* what is left of a pool that mining filled and a purchase of drones drew
\* on, after an upgrade was bought
C40_Witness ==
    /\ Idle
    /\ droneCount > 1
    /\ wallHP > 1
    /\ resources <= MaxResources

====
